---- MODULE Spec2Model ----
(***************************************************************************)
(* Model of the fetch orchestrator of opencode-usage-companion             *)
(* (src/src/main.rs): provider resolution, the configuration checks, the   *)
(* sequential and the concurrent (join_all) fetch of the configured        *)
(* providers, the assembly of the result set and the choice of the exit    *)
(* code.                                                                   *)
(***************************************************************************)
EXTENDS Integers, Sequences, FiniteSets, TLC

\* Longest --provider argument list that is enumerated.
MaxArgs == 2

\* Most entries of a model catalog that go into buckets.
MaxEntries == 3

\* Most accounts of an antigravity-accounts.json.
MaxAccounts == 2

\* cli.rs: the values of --provider; main.rs: the provider names.
ProviderArg == {"Gemini", "Codex", "Copilot", "Claude", "All"}
ProviderNames == {"gemini", "codex", "copilot", "claude"}

\* QuotaError variants a fetch is modelled to end with.
ErrorKinds == {"ApiError", "NetworkError", "ProviderNotConfigured"}

\* Value of `rendered' while format_output has not been called.
NotRendered == <<"not rendered">>

\* Final error lines of main.
MsgNone == "none"
MsgNoProvidersSpecified == "Error: No providers specified."
MsgNoProvidersConfigured == "Error: No AI providers configured."
MsgAllFailed == "Error: All provider queries failed."

VARIABLES
    args_provider,     \* args.provider
    concurrent,        \* args.concurrent
    cred,              \* credential files: provider name -> configured?
    backend,           \* answer of the remote service, per provider position
    pc,                \* position of main
    providers,         \* Vec<Box<dyn Provider>>, by name
    configured_count,
    futures,           \* concurrent branch: provider positions handed to join_all
    i,                 \* loop index of the branch that is running
    outcomes,          \* output of join_all
    results,           \* the Result Set
    has_errors,
    first_warning,
    warnings,          \* print_warning calls, in order
    rendered,          \* argument of format_output, or NotRendered
    message,           \* the final error line written to stderr
    exit_code,
    fst,               \* per provider position: state of its fetch future
    calls,             \* per provider position: number of fetch invocations
    order,             \* provider positions in order of completion
    reordered,         \* join_all saw a completion order other than list order
    phase,             \* 1: first execution, 2: re-execution
    prev,              \* what the first execution ended with
    silent,            \* provider positions whose backend never answered
    counted            \* per provider position: is_configured when counted

\* AuthManager (auth.rs) and what it reads.
VARIABLES
    home,              \* dirs::home_dir() is Some
    data_dir,          \* dirs::data_dir() is Some
    auth_file,         \* ~/.local/share/opencode/auth.json
    anti_files,        \* the three candidate antigravity-accounts.json files
    auth_ret,          \* the provider last asked is_configured, and the answer
    http               \* the HTTP calls issued so far, in order

auth_vars == <<home, data_dir, auth_file, anti_files, auth_ret>>

\* GeminiProvider::fetch (gemini.rs 381-434).
VARIABLES
    store,             \* what read_antigravity_accounts returns
    idx,               \* the account the loop is at
    project_id,        \* fetch_account_quota: the project of the account
    account_data,      \* the accounts whose quota was fetched
    acct_warnings,     \* the accounts a warning was printed for, in order
    fetch_ret          \* what fetch returned

gem_vars == <<store, idx, project_id, account_data, acct_warnings, fetch_ret>>

\* GeminiProvider::fetch_account_quota: the aggregation (gemini.rs 262-366).
VARIABLES
    now,               \* Utc::now()
    bucket,            \* the four buckets, by label
    seen,              \* the entries that went into a bucket so far
    last,              \* the entry of the iteration that ran last
    models             \* the GeminiModelQuota list

agg_vars == <<now, bucket, seen, last, models>>

\* Provider::fetch(timeout, verbose) (providers/mod.rs 40).
VARIABLES
    fetcher,           \* self: the provider whose fetch is running
    timeout,           \* args.timeout, in seconds
    verbose,           \* args.verbose
    vlog               \* the lines the verbose blocks wrote to stderr, in order

call_args == <<fetcher, timeout, verbose>>
call_vars == <<call_args, vlog>>

\* The table output of Codex data (output/table.rs) and ProviderData::status.
VARIABLES
    codex,             \* data: the CodexData that is displayed
    no_color,          \* no_color (args.no_color)
    start_row,         \* add_codex_rows: start_row
    rows,              \* builder: the records pushed so far
    cell_colors,       \* cell_colors: (row, column, colour)
    data_status        \* what ProviderData::status returned

out_vars == <<codex, no_color, start_row, rows, cell_colors, data_status>>

\* The variables of the provider components and of the output (none of them is
\* touched by main).
comp_vars == <<auth_vars, gem_vars, agg_vars, call_vars, http, out_vars>>

\* The variables of main but its position.
orch_data == <<args_provider, concurrent, cred, backend, providers,
               configured_count, futures, i, outcomes, results, has_errors,
               first_warning, warnings, rendered, message, exit_code, fst,
               calls, order, reordered, phase, prev, silent, counted>>

\* auth.rs 8-17: the entries of auth.json.
AuthKeys == {"google", "anthropic", "openai", "github-copilot"}

\* What can be found at the path of auth.json.
AuthFiles ==
    {[state |-> st, keys |-> {}] : st \in {"absent", "unreadable", "malformed"}}
        \cup {[state |-> "valid", keys |-> K] : K \in SUBSET AuthKeys}

\* What can be found at a candidate path of antigravity-accounts.json.
AntiFileStates == {"absent", "unreadable", "malformed", "valid"}

NotAsked == [provider |-> "none", value |-> FALSE]

AuthIdle ==
    /\ home = TRUE
    /\ data_dir = TRUE
    /\ auth_file = [state |-> "absent", keys |-> {}]
    /\ anti_files = [k \in 1..3 |-> "absent"]
    /\ auth_ret = NotAsked

GemIdle ==
    /\ store = <<>>
    /\ idx = 0
    /\ project_id = <<>>
    /\ account_data = <<>>
    /\ acct_warnings = <<>>
    /\ fetch_ret = <<>>

AggIdle ==
    /\ now = 0
    /\ bucket = <<>>
    /\ seen = {}
    /\ last = <<>>
    /\ models = <<>>

CallIdle ==
    /\ fetcher = "none"
    /\ timeout = 0
    /\ verbose = FALSE
    /\ vlog = <<>>

\* ProviderData::status has not been asked.
NoStatus == "none"

OutIdle ==
    /\ codex = <<>>
    /\ no_color = FALSE
    /\ start_row = 0
    /\ rows = <<>>
    /\ cell_colors = <<>>
    /\ data_status = NoStatus

\* The provider components at rest.
CompIdle ==
    /\ AuthIdle
    /\ GemIdle
    /\ AggIdle
    /\ CallIdle
    /\ OutIdle
    /\ http = <<>>

\* main is not running (pc names the component that is).
OrchIdle ==
    /\ args_provider = <<>>
    /\ concurrent = FALSE
    /\ cred = [p \in ProviderNames |-> FALSE]
    /\ backend = <<>>
    /\ providers = <<>>
    /\ configured_count = 0
    /\ futures = <<>>
    /\ i = 1
    /\ outcomes = <<>>
    /\ results = <<>>
    /\ has_errors = FALSE
    /\ first_warning = TRUE
    /\ warnings = <<>>
    /\ rendered = NotRendered
    /\ message = MsgNone
    /\ exit_code = 0
    /\ fst = <<>>
    /\ calls = <<>>
    /\ order = <<>>
    /\ reordered = FALSE
    /\ phase = 1
    /\ prev = <<>>
    /\ silent = {}
    /\ counted = <<>>

vars == <<args_provider, concurrent, cred, backend, pc, providers,
          configured_count, futures, i, outcomes, results, has_errors,
          first_warning, warnings, rendered, message, exit_code, fst, calls,
          order, reordered, phase, prev, silent, counted, comp_vars>>

-----------------------------------------------------------------------------
\* Sequences of length <= n over S.
SeqsUpTo(S, n) == UNION {[1..k -> S] : k \in 0..n}

Range(s) == {s[k] : k \in DOMAIN s}

\* The increasing sequence of the elements of a set of positions.
RECURSIVE SortedSeq(_)
SortedSeq(S) ==
    IF S = {} THEN <<>>
    ELSE LET m == CHOOSE x \in S : \A y \in S : x <= y
         IN <<m>> \o SortedSeq(S \ {m})

-----------------------------------------------------------------------------
\* main.rs 41-46: the name of a --provider value.
ArgName(a) ==
    CASE a = "Gemini" -> "gemini"
      [] a = "Codex" -> "codex"
      [] a = "Copilot" -> "copilot"
      [] a = "Claude" -> "claude"

\* Bug variant: an empty --provider list is not expanded to all providers.
ResolveProviderNames_NoDefault(args) ==
    IF "All" \in Range(args)
    THEN <<"gemini", "codex", "copilot", "claude">>
    ELSE [k \in DOMAIN args |-> ArgName(args[k])]

\* main.rs 36-49: the providers to query.
ResolveProviderNames(args) ==
    IF args = <<>> \/ "All" \in Range(args)
    THEN <<"gemini", "codex", "copilot", "claude">>
    ELSE [k \in DOMAIN args |-> ArgName(args[k])]

\* main.rs 55-88: one provider instance per known name (`_ => continue').
BuildProviders(names) == SelectSeq(names, LAMBDA n : n \in ProviderNames)

\* Provider::is_configured, through AuthManager::is_provider_configured:
\* whether the credential files hold an entry for the provider.
IsConfigured(p) == p \in ProviderNames /\ cred[p]

\* main.rs 53-88: configured_count after the construction loop.
CountConfigured(names) ==
    Cardinality({k \in DOMAIN names : IsConfigured(names[k])})

\* Bug variant: the configured_count check is missing.
NoneConfigured_Never(n) == FALSE

\* Bug variant: the configured_count check tests for a negative count.
NoneConfigured_Negative(n) == n < 0

\* main.rs 95: configured_count == 0.
NoneConfigured(n) == n = 0

\* error.rs 20-42: Display of QuotaError (the text before the detail).
ErrToString(e) ==
    CASE e = "AuthFileNotFound" -> "Authentication file not found"
      [] e = "ProviderNotConfigured" -> "Provider not configured"
      [] e = "ApiError" -> "API request failed"
      [] e = "TokenRefreshError" -> "Token refresh failed"
      [] e = "NetworkError" -> "Network error"
      [] e = "JsonError" -> "JSON parse error"
      [] e = "IoError" -> "IO error"

\* providers/mod.rs 46-56: the ProviderData variants.
Snapshot(type) == [type |-> type, provider |-> "", error |-> ""]
Failed(name, error) == [type |-> "failed", provider |-> name, error |-> error]
IsFailed(d) == d.type = "failed"

\* providers/mod.rs 129-137: ProviderData::provider_name.
provider_name(d) == IF IsFailed(d) THEN d.provider ELSE d.type

\* What a provider's fetch can return: Ok(its own ProviderData variant) or
\* Err(QuotaError).
FetchOk(name) == [ok |-> TRUE, data |-> Snapshot(name), err |-> "none"]
FetchErr(e) == [ok |-> FALSE, data |-> Snapshot("none"), err |-> e]

\* The errors the fetch of a configured provider returns.  claude, codex and
\* copilot: `?' on the quota request (NetworkError: transport error, timeout,
\* undecodable body) or a non-2xx status (ApiError).  gemini: every error of an
\* account is kept inside the account loop; fetch itself returns the aggregate
\* ApiError, or ProviderNotConfigured for an empty account list.
FetchErrors(name) ==
    IF name = "gemini" THEN {"ApiError", "ProviderNotConfigured"}
    ELSE {"ApiError", "NetworkError"}

FetchOutcomes(name) ==
    {FetchOk(name)} \cup {FetchErr(e) : e \in FetchErrors(name)}

\* Bug variant: the check for an empty account_data is missing.
GeminiFetchReturn_EmptySnapshot(fetched) ==
    [ok |-> TRUE, err |-> "none", accounts |-> fetched]

\* gemini.rs 427-433: what GeminiProvider::fetch returns after the account
\* loop, from the accounts whose quota was fetched.
GeminiFetchReturn(fetched) ==
    IF fetched = <<>>
    THEN [ok |-> FALSE, err |-> "ApiError", accounts |-> <<>>]
    ELSE [ok |-> TRUE, err |-> "none", accounts |-> fetched]

\* What fetch returns when no HTTP call of it is ever answered and each runs
\* into its timeout.  claude.rs 76-77, codex.rs, copilot.rs 199-201: the one
\* quota request ends with a reqwest error, `?' makes it NetworkError.
\* gemini.rs 244, 414-424: the token refresh of every account ends so, no
\* account succeeds.
TimeoutOutcome(name) ==
    IF name = "gemini" THEN FetchErr(GeminiFetchReturn(<<>>).err)
    ELSE FetchErr("NetworkError")

-----------------------------------------------------------------------------
Init ==
    /\ args_provider \in SeqsUpTo(ProviderArg, MaxArgs)
    /\ concurrent \in BOOLEAN
    /\ cred \in [ProviderNames -> BOOLEAN]
    /\ backend = <<>>
    /\ pc = "start"
    /\ providers = <<>>
    /\ configured_count = 0
    /\ futures = <<>>
    /\ i = 1
    /\ outcomes = <<>>
    /\ results = <<>>
    /\ has_errors = FALSE
    /\ first_warning = TRUE
    /\ warnings = <<>>
    /\ rendered = NotRendered
    /\ message = MsgNone
    /\ exit_code = 0
    /\ fst = <<>>
    /\ calls = <<>>
    /\ order = <<>>
    /\ reordered = FALSE
    /\ phase = 1
    /\ prev = <<>>
    /\ silent = {}
    /\ counted = <<>>
    /\ CompIdle

\* main.rs 52-88: resolve the names, build the providers, count the
\* configured ones.
Build ==
    /\ pc = "start"
    /\ LET ps == BuildProviders(ResolveProviderNames(args_provider))
       IN /\ providers' = ps
          /\ configured_count' = CountConfigured(ps)
          /\ fst' = [k \in DOMAIN ps |-> "idle"]
          /\ calls' = [k \in DOMAIN ps |-> 0]
          /\ counted' = [k \in DOMAIN ps |-> IsConfigured(ps[k])]
    /\ pc' = "check"
    /\ UNCHANGED <<args_provider, concurrent, cred, backend, futures, i,
                   outcomes, results, has_errors, first_warning, warnings,
                   rendered, message, exit_code, order, reordered, phase, prev>>
    /\ UNCHANGED <<silent, comp_vars>>

\* main.rs 90-115: the two configuration checks, then the choice of branch.
Check ==
    /\ pc = "check"
    /\ IF providers = <<>>
       THEN /\ message' = MsgNoProvidersSpecified
            /\ exit_code' = 2
            /\ pc' = "done"
       ELSE IF NoneConfigured(configured_count)
       THEN /\ message' = MsgNoProvidersConfigured
            /\ exit_code' = 2
            /\ pc' = "done"
       ELSE /\ pc' = IF concurrent THEN "conc_create" ELSE "seq_loop"
            /\ UNCHANGED <<message, exit_code>>
    /\ UNCHANGED <<args_provider, concurrent, cred, backend, providers,
                   configured_count, futures, i, outcomes, results, has_errors,
                   first_warning, warnings, rendered, fst, calls, order,
                   reordered, phase, prev>>
    /\ UNCHANGED <<silent, counted, comp_vars>>

\* The start of provider.fetch(timeout, verbose) for the provider at position k.
StartFetch(k) ==
    /\ fst' = [fst EXCEPT ![k] = "running"]
    /\ calls' = [calls EXCEPT ![k] = @ + 1]

\* A fetch future resolves: the remote service answered, or the call failed.
\* The answer for a position is fixed once given (a re-execution sees the same).
FetchCompleteWith(k, outs) ==
    /\ pc \in {"conc_poll", "join", "seq_await"}
    /\ k \in DOMAIN fst
    /\ fst[k] = "running"
    /\ \E o \in outs :
          /\ k \in DOMAIN backend => backend[k] = o
          /\ backend' = (k :> o) @@ backend
    /\ fst' = [fst EXCEPT ![k] = "done"]
    /\ order' = Append(order, k)
    /\ UNCHANGED <<args_provider, concurrent, cred, pc, providers,
                   configured_count, futures, i, outcomes, results, has_errors,
                   first_warning, warnings, rendered, message, exit_code, calls,
                   reordered, phase, prev>>
    /\ UNCHANGED <<silent, counted, comp_vars>>

\* The fetch of the provider at position k returns what a fetch returns that
\* found the credentials is_configured found.
FetchComplete(k) == FetchCompleteWith(k, FetchOutcomes(providers[k]))

\* A fetch future resolves although the remote service never answered: every
\* HTTP call of the fetch carries a timeout.
FetchTimeout(k) ==
    /\ pc \in {"conc_poll", "join", "seq_await"}
    /\ k \in DOMAIN fst
    /\ fst[k] = "running"
    /\ LET o == TimeoutOutcome(providers[k])
       IN /\ k \in DOMAIN backend => backend[k] = o
          /\ backend' = (k :> o) @@ backend
    /\ fst' = [fst EXCEPT ![k] = "done"]
    /\ order' = Append(order, k)
    /\ silent' = silent \cup {k}
    /\ UNCHANGED <<args_provider, concurrent, cred, pc, providers,
                   configured_count, futures, i, outcomes, results, has_errors,
                   first_warning, warnings, rendered, message, exit_code, calls,
                   reordered, phase, prev, counted, comp_vars>>

\* main.rs 117-128: the futures of the configured providers, in list order.
ConfiguredPositions(ps) ==
    SortedSeq({k \in DOMAIN ps : IsConfigured(ps[k])})

ConcCreate ==
    /\ pc = "conc_create"
    /\ futures' = ConfiguredPositions(providers)
    /\ i' = 1
    /\ pc' = IF futures' = <<>> THEN "join" ELSE "conc_poll"
    /\ UNCHANGED <<args_provider, concurrent, cred, backend, providers,
                   configured_count, outcomes, results, has_errors,
                   first_warning, warnings, rendered, message, exit_code, fst,
                   calls, order, reordered, phase, prev>>
    /\ UNCHANGED <<silent, counted, comp_vars>>

\* main.rs 130, first poll of join_all: the futures are polled in order.
ConcPoll ==
    /\ pc = "conc_poll"
    /\ i <= Len(futures)
    /\ StartFetch(futures[i])
    /\ i' = i + 1
    /\ pc' = IF i = Len(futures) THEN "join" ELSE "conc_poll"
    /\ UNCHANGED <<args_provider, concurrent, cred, backend, providers,
                   configured_count, futures, outcomes, results, has_errors,
                   first_warning, warnings, rendered, message, exit_code,
                   order, reordered, phase, prev>>
    /\ UNCHANGED <<silent, counted, comp_vars>>

\* Bug variant: join_all is handed a future for every provider of the list,
\* and those of the unconfigured ones never resolve.
JoinAllReady_EveryProvider(futs, st) == \A k \in DOMAIN st : st[k] = "done"

\* Bug variant: a race, join_all resolves as soon as one future has.
JoinAllReady_Race(futs, st) == \E j \in DOMAIN futs : st[futs[j]] = "done"

\* join_all resolves when every future has.
JoinAllReady(futs, st) == \A j \in DOMAIN futs : st[futs[j]] = "done"

\* Bug variant: outputs appended in completion order.
JoinAllOrder_ByCompletion(futs, ord) == ord

\* join_all yields the outputs in the order of the futures it was given.
JoinAllOrder(futs, ord) == futs

\* main.rs 121-127: the output of the future of position k.
FutureOutput(k) == [name |-> providers[k], out |-> backend[k]]

JoinAll ==
    /\ pc = "join"
    /\ JoinAllReady(futures, fst)
    /\ LET ks == SelectSeq(JoinAllOrder(futures, order),
                           LAMBDA k : fst[k] = "done")
       IN /\ outcomes' = [j \in DOMAIN ks |-> FutureOutput(ks[j])]
          /\ pc' = IF ks = <<>> THEN "select" ELSE "conc_record"
    /\ i' = 1
    /\ reordered' = (order # futures)
    /\ order' = <<>>
    /\ UNCHANGED <<args_provider, concurrent, cred, backend, providers,
                   configured_count, futures, results, has_errors,
                   first_warning, warnings, rendered, message, exit_code, fst,
                   calls, phase, prev>>
    /\ UNCHANGED <<silent, counted, comp_vars>>

\* main.rs 134 and 158: Ok(data) => results.push(data).
OnOk(data) ==
    [results |-> Append(results, data), warnings |-> warnings,
     has_errors |-> has_errors, first_warning |-> first_warning]

\* Bug variant: the concurrent branch forgets to set has_errors.
ConcOnErr_NoFlag(name, e) ==
    [results |-> Append(results, Failed(name, ErrToString(e))),
     warnings |-> Append(warnings, [provider |-> name, error |-> ErrToString(e)]),
     has_errors |-> has_errors, first_warning |-> FALSE]

\* main.rs 135-146: Err((name, e)) of the concurrent branch: the warning, the
\* Failed entry, has_errors.
ConcOnErr(name, e) ==
    [results |-> Append(results, Failed(name, ErrToString(e))),
     warnings |-> Append(warnings, [provider |-> name, error |-> ErrToString(e)]),
     has_errors |-> TRUE, first_warning |-> FALSE]

\* main.rs 159-170: Err(e) of the sequential branch.
SeqOnErr(name, e) ==
    [results |-> Append(results, Failed(name, ErrToString(e))),
     warnings |-> Append(warnings, [provider |-> name, error |-> ErrToString(e)]),
     has_errors |-> TRUE, first_warning |-> FALSE]

Recorded(r) ==
    /\ results' = r.results
    /\ warnings' = r.warnings
    /\ has_errors' = r.has_errors
    /\ first_warning' = r.first_warning

\* main.rs 132-148: one iteration of the loop over the outcomes of join_all.
ConcRecord ==
    /\ pc = "conc_record"
    /\ i <= Len(outcomes)
    /\ LET o == outcomes[i]
       IN Recorded(IF o.out.ok THEN OnOk(o.out.data)
                   ELSE ConcOnErr(o.name, o.out.err))
    /\ i' = i + 1
    /\ pc' = IF i = Len(outcomes) THEN "select" ELSE "conc_record"
    /\ UNCHANGED <<args_provider, concurrent, cred, backend, providers,
                   configured_count, futures, outcomes, rendered, message,
                   exit_code, fst, calls, order, reordered, phase, prev>>
    /\ UNCHANGED <<silent, counted, comp_vars>>

\* Bug variant: the sequential loop also starts the fetch of the next provider.
SeqStarts_Prefetch(k, ps) ==
    {k} \cup {j \in DOMAIN ps : j = k + 1 /\ IsConfigured(ps[j])}

\* main.rs 157: the loop body starts the fetch of the current provider only.
SeqStarts(k, ps) == {k}

\* main.rs 151-157: the head of the sequential loop: leave the loop, skip an
\* unconfigured provider, or start the fetch of the current one and await it.
SeqNext ==
    /\ pc = "seq_loop"
    /\ IF i > Len(providers)
       THEN /\ pc' = "select"
            /\ UNCHANGED <<i, fst, calls>>
       ELSE IF ~IsConfigured(providers[i])
       THEN /\ i' = i + 1
            /\ UNCHANGED <<pc, fst, calls>>
       ELSE /\ fst' = [k \in DOMAIN fst |->
                         IF k \in SeqStarts(i, providers) THEN "running"
                         ELSE fst[k]]
            /\ calls' = [k \in DOMAIN calls |->
                           IF k \in SeqStarts(i, providers) THEN calls[k] + 1
                           ELSE calls[k]]
            /\ pc' = "seq_await"
            /\ UNCHANGED i
    /\ UNCHANGED <<args_provider, concurrent, cred, backend, providers,
                   configured_count, futures, outcomes, results, has_errors,
                   first_warning, warnings, rendered, message, exit_code,
                   order, reordered, phase, prev>>
    /\ UNCHANGED <<silent, counted, comp_vars>>

\* Bug variant: an error ends the loop (the error is propagated).
SeqAdvance_StopOnErr(k, n, ok) == IF ok THEN k + 1 ELSE n + 1

\* main.rs 151, 171: after either arm of the match the loop goes on with the
\* next provider.
SeqAdvance(k, n, ok) == k + 1

\* main.rs 157-171: the awaited fetch has resolved; its outcome is recorded.
SeqRecord ==
    /\ pc = "seq_await"
    /\ fst[i] = "done"
    /\ LET o == backend[i]
       IN /\ Recorded(IF o.ok THEN OnOk(o.data)
                      ELSE SeqOnErr(providers[i], o.err))
          /\ i' = SeqAdvance(i, Len(providers), o.ok)
    /\ pc' = "seq_loop"
    /\ UNCHANGED <<args_provider, concurrent, cred, backend, providers,
                   configured_count, futures, outcomes, rendered, message,
                   exit_code, fst, calls, order, reordered, phase, prev>>
    /\ UNCHANGED <<silent, counted, comp_vars>>

\* Bug variant: any Failed entry counts as total failure.
AllFailed_Any(rs) == \E k \in DOMAIN rs : IsFailed(rs[k])

\* Bug variant: the all-failed check is missing.
AllFailed_Never(rs) == FALSE

\* main.rs 181: results.iter().all(|r| matches!(r, ProviderData::Failed { .. })).
AllFailed(rs) == \A k \in DOMAIN rs : IsFailed(rs[k])

\* Bug variant: the process exits 0 whenever something was rendered.
FinalExitCode_AlwaysOk(errors) == 0

\* Bug variant: the two exit codes are swapped.
FinalExitCode_Swapped(errors) == IF errors THEN 0 ELSE 1

\* main.rs 192-196.
FinalExitCode(errors) == IF errors THEN 1 ELSE 0

\* main.rs 175-196: the end of main.
ExitSelect ==
    /\ pc = "select"
    /\ IF results = <<>> \/ AllFailed(results)
       THEN /\ message' = MsgAllFailed
            /\ exit_code' = 1
            /\ UNCHANGED rendered
       ELSE /\ rendered' = results
            /\ exit_code' = FinalExitCode(has_errors)
            /\ UNCHANGED message
    /\ pc' = "done"
    /\ UNCHANGED <<args_provider, concurrent, cred, backend, providers,
                   configured_count, futures, i, outcomes, results, has_errors,
                   first_warning, warnings, fst, calls, order, reordered,
                   phase, prev>>
    /\ UNCHANGED <<silent, counted, comp_vars>>

-----------------------------------------------------------------------------
\* The terminal condition of an execution that has ended.
Condition ==
    IF message = MsgNoProvidersSpecified THEN "no providers specified"
    ELSE IF message = MsgNoProvidersConfigured THEN "no providers configured"
    ELSE IF message = MsgAllFailed THEN "all failed"
    ELSE IF \E k \in DOMAIN results : IsFailed(results[k]) THEN "partial success"
    ELSE "full success"

\* A process start: the locals of main as at the beginning of main.
FreshProcess ==
    /\ pc' = "start"
    /\ providers' = <<>>
    /\ configured_count' = 0
    /\ futures' = <<>>
    /\ i' = 1
    /\ outcomes' = <<>>
    /\ results' = <<>>
    /\ has_errors' = FALSE
    /\ first_warning' = TRUE
    /\ warnings' = <<>>
    /\ rendered' = NotRendered
    /\ message' = MsgNone
    /\ exit_code' = 0
    /\ fst' = <<>>
    /\ calls' = <<>>
    /\ order' = <<>>
    /\ reordered' = FALSE
    /\ counted' = <<>>

\* The same request is executed again in the other scheduling mode, against
\* the same credential files and backends that answer as before.
RunOtherMode ==
    /\ pc = "done"
    /\ phase = 1
    /\ phase' = 2
    /\ prev' = [results |-> results, exit_code |-> exit_code,
                condition |-> Condition]
    /\ concurrent' = ~concurrent
    /\ FreshProcess
    /\ UNCHANGED <<args_provider, cred, backend>>
    /\ UNCHANGED <<silent, comp_vars>>

\* The same command is executed again; the backends answer afresh.  Only the
\* terminal condition and the exit code of the first execution are kept.
RunAgain ==
    /\ pc = "done"
    /\ phase = 1
    /\ phase' = 2
    /\ prev' = [results |-> <<>>, exit_code |-> exit_code,
                condition |-> Condition]
    /\ backend' = <<>>
    /\ FreshProcess
    /\ UNCHANGED <<args_provider, concurrent, cred>>
    /\ UNCHANGED <<silent, comp_vars>>

Next ==
    \/ Build
    \/ Check
    \/ ConcCreate
    \/ ConcPoll
    \/ \E k \in DOMAIN fst : FetchComplete(k)
    \/ JoinAll
    \/ ConcRecord
    \/ SeqNext
    \/ SeqRecord
    \/ ExitSelect

\* One execution of the tool.
Spec == Init /\ [][Next]_vars

\* An execution, then the same request in the other scheduling mode.
SpecModes == Init /\ [][Next \/ RunOtherMode]_vars

\* An execution, then the same command once more.
SpecAgain == Init /\ [][Next \/ RunAgain]_vars

\* One execution in which backends may stay silent.  Fairness: main is the
\* only task of the runtime, which runs it whenever it can take a step, and
\* every HTTP call ends, with an answer or with its timeout.
NextLive == Next \/ \E k \in DOMAIN fst : FetchTimeout(k)
SpecLive == Init /\ [][NextLive]_vars /\ WF_vars(NextLive)

-----------------------------------------------------------------------------
\* AuthManager: the configuration check (auth.rs).

\* Result<Option<_>> of the two readers.
ReadErr(e) == [ok |-> FALSE, some |-> FALSE, keys |-> {}, err |-> e]
ReadNone == [ok |-> TRUE, some |-> FALSE, keys |-> {}, err |-> "none"]
ReadSome(keys) == [ok |-> TRUE, some |-> TRUE, keys |-> keys, err |-> "none"]

\* auth.rs 82-86, 110-120: read_opencode_auth.
ReadOpencodeAuth(h, f) ==
    IF ~h THEN ReadErr("AuthFileNotFound")
    ELSE IF f.state = "absent" THEN ReadNone
    ELSE IF f.state = "unreadable" THEN ReadErr("IoError")
    ELSE IF f.state = "malformed" THEN ReadErr("JsonError")
    ELSE ReadSome(f.keys)

\* auth.rs 90-107: get_antigravity_accounts_paths (1: under data_dir,
\* 2: ~/.config/opencode, 3: ~/.local/share/opencode).
AntigravityPaths(h, d) ==
    IF h THEN (IF d THEN <<1>> ELSE <<>>) \o <<2, 3>> ELSE <<>>

\* Bug variant: a candidate file that cannot be read or parsed is passed over
\* and the next path is tried.
RECURSIVE ReadAntigravityAccounts_SkipBroken(_, _)
ReadAntigravityAccounts_SkipBroken(paths, files) ==
    IF paths = <<>> THEN ReadNone
    ELSE IF files[Head(paths)] = "valid" THEN ReadSome({})
    ELSE ReadAntigravityAccounts_SkipBroken(Tail(paths), files)

\* auth.rs 124-136: read_antigravity_accounts: the first path that exists is
\* read and parsed, `?' on either step.
RECURSIVE ReadAntigravityAccounts(_, _)
ReadAntigravityAccounts(paths, files) ==
    IF paths = <<>> THEN ReadNone
    ELSE IF files[Head(paths)] = "absent"
    THEN ReadAntigravityAccounts(Tail(paths), files)
    ELSE IF files[Head(paths)] = "unreadable" THEN ReadErr("IoError")
    ELSE IF files[Head(paths)] = "malformed" THEN ReadErr("JsonError")
    ELSE ReadSome({})

\* auth.rs 142-143: `.ok().flatten()'.
OkFlatten(r) == IF r.ok THEN r ELSE ReadNone

\* auth.rs 140-156: is_provider_configured, a Result<bool>.
IsProviderConfigured(p, opencode_auth, antigravity_accounts) ==
    LET oa == OkFlatten(opencode_auth)
        aa == OkFlatten(antigravity_accounts)
    IN [ok |-> TRUE,
        value |-> CASE p = "gemini" -> aa.some
                    [] p = "claude" -> oa.some /\ "anthropic" \in oa.keys
                    [] p = "codex" -> oa.some /\ "openai" \in oa.keys
                    [] p = "copilot" -> oa.some /\ "github-copilot" \in oa.keys
                    [] OTHER -> FALSE]

\* gemini.rs 375-379 (claude.rs, codex.rs, copilot.rs 168-172 alike):
\* `.unwrap_or(false)'.
UnwrapOrFalse(r) == IF r.ok THEN r.value ELSE FALSE

\* Provider::is_configured of the provider named p.
IsConfiguredCall(p) ==
    /\ pc = "auth"
    /\ auth_ret' =
          [provider |-> p,
           value |-> UnwrapOrFalse(IsProviderConfigured(p,
                        ReadOpencodeAuth(home, auth_file),
                        ReadAntigravityAccounts(
                            AntigravityPaths(home, data_dir), anti_files)))]
    /\ UNCHANGED <<home, data_dir, auth_file, anti_files, http>>
    /\ UNCHANGED <<pc, orch_data, gem_vars, agg_vars, call_vars, out_vars>>

InitAuth ==
    /\ home \in BOOLEAN
    /\ data_dir \in BOOLEAN
    /\ auth_file \in AuthFiles
    /\ anti_files \in [1..3 -> AntiFileStates]
    /\ auth_ret = NotAsked
    /\ GemIdle /\ AggIdle /\ CallIdle /\ OutIdle /\ http = <<>>
    /\ OrchIdle
    /\ pc = "auth"

NextAuth == \E p \in ProviderNames : IsConfiguredCall(p)

\* The configuration checks of the four providers, over every state of the
\* credential files.
SpecAuth == InitAuth /\ [][NextAuth]_vars

-----------------------------------------------------------------------------
\* GeminiProvider::fetch_account_quota: the aggregation of the model catalog
\* into quota buckets (gemini.rs 262-366).  Strings are sequences of
\* characters.  Fractions and percentages are in hundredths (1.0 is 100,
\* 100 per cent is 10000); times are in hours.

\* Optional strings.
NoString == [some |-> FALSE, s |-> <<>>]
SomeString(s) == [some |-> TRUE, s |-> s]

\* Catalog entries as the service names them: the key of the entry and its
\* displayName.
Name_Claude ==
    [key |-> <<"m">>,
     display |-> SomeString(
        <<"C", "l", "a", "u", "d", "e", " ", "4">>)]
Name_GptOss ==
    [key |-> <<"m">>,
     display |-> SomeString(
        <<"G", "P", "T", "-", "O", "S", "S">>)]
Name_ProImage ==
    [key |-> <<"m">>,
     display |-> SomeString(
        <<"G", "e", "m", "i", "n", "i", " ", "3", " ", "P",
          "r", "o", " ", "I", "m", "a", "g", "e">>)]
Name_Pro ==
    [key |-> <<"m">>,
     display |-> SomeString(
        <<"G", "e", "m", "i", "n", "i", " ", "3", " ", "P",
          "r", "o">>)]
Name_Flash ==
    [key |-> <<"m">>,
     display |-> SomeString(
        <<"G", "e", "m", "i", "n", "i", " ", "3", " ", "F",
          "l", "a", "s", "h">>)]
Name_Flash25 ==
    [key |-> <<"m">>,
     display |-> SomeString(
        <<"G", "e", "m", "i", "n", "i", " ", "2", ".", "5",
          " ", "F", "l", "a", "s", "h">>)]
Name_ChatClaude ==
    [key |-> <<"m">>,
     display |-> SomeString(
        <<"C", "H", "A", "T", "_", "C", "l", "a", "u", "d",
          "e">>)]
Name_Rev19Pro ==
    [key |-> <<"m">>,
     display |-> SomeString(
        <<"r", "e", "v", "1", "9", " ", "g", "e", "m", "i",
          "n", "i", " ", "3", " ", "p", "r", "o">>)]
Name_FlashLite ==
    [key |-> <<"m">>,
     display |-> SomeString(
        <<"F", "l", "a", "s", "h", " ", "L", "i", "t", "e">>)]
Name_KeyFlash ==
    [key |-> <<"g", "e", "m", "i", "n", "i", "-", "3", "-", "f",
               "l", "a", "s", "h">>,
     display |-> NoString]
Name_KeyChat ==
    [key |-> <<"c", "h", "a", "t", "_", "1">>,
     display |-> SomeString(
        <<"G", "e", "m", "i", "n", "i", " ", "3", " ", "P",
          "r", "o">>)]
Name_ProClaude ==
    [key |-> <<"m">>,
     display |-> SomeString(
        <<"G", "e", "m", "i", "n", "i", " ", "3", " ", "P",
          "r", "o", " ", "C", "l", "a", "u", "d", "e">>)]
Name_ProFlash ==
    [key |-> <<"m">>,
     display |-> SomeString(
        <<"G", "e", "m", "i", "n", "i", " ", "3", " ", "P",
          "r", "o", " ", "F", "l", "a", "s", "h">>)]

ModelNames ==
    {Name_Claude, Name_GptOss, Name_ProImage, Name_Pro,
     Name_Flash, Name_Flash25, Name_ChatClaude, Name_Rev19Pro,
     Name_FlashLite, Name_KeyFlash, Name_KeyChat, Name_ProClaude,
     Name_ProFlash}

\* str::to_lowercase, on the letters that occur.
ToLowerChar(c) ==
    CASE c = "A" -> "a" [] c = "B" -> "b" [] c = "C" -> "c"
      [] c = "D" -> "d" [] c = "E" -> "e" [] c = "F" -> "f"
      [] c = "G" -> "g" [] c = "H" -> "h" [] c = "I" -> "i"
      [] c = "J" -> "j" [] c = "K" -> "k" [] c = "L" -> "l"
      [] c = "M" -> "m" [] c = "N" -> "n" [] c = "O" -> "o"
      [] c = "P" -> "p" [] c = "Q" -> "q" [] c = "R" -> "r"
      [] c = "S" -> "s" [] c = "T" -> "t" [] c = "U" -> "u"
      [] c = "V" -> "v" [] c = "W" -> "w" [] c = "X" -> "x"
      [] c = "Y" -> "y" [] c = "Z" -> "z"
      [] OTHER -> c
ToLowercase(s) == [k \in DOMAIN s |-> ToLowerChar(s[k])]

\* str::starts_with and str::contains.
StartsWith(s, p) == Len(s) >= Len(p) /\ SubSeq(s, 1, Len(p)) = p
Contains(s, p) ==
    \E k \in 1..(Len(s) - Len(p) + 1) : SubSeq(s, k, k + Len(p) - 1) = p

\* gemini.rs 279, 291-297: the patterns.
Pat_Chat == <<"c", "h", "a", "t", "_">>
Pat_Rev19 == <<"r", "e", "v", "1", "9">>
Pat_Claude == <<"c", "l", "a", "u", "d", "e">>
Pat_GptOss == <<"g", "p", "t", "-", "o", "s", "s">>
Pat_ProImage ==
    <<"g", "e", "m", "i", "n", "i", " ", "3", " ", "p",
      "r", "o", " ", "i", "m", "a", "g", "e">>
Pat_Pro == <<"g", "e", "m", "i", "n", "i", " ", "3", " ", "p", "r", "o">>
Pat_Gemini == <<"g", "e", "m", "i", "n", "i">>
Pat_Flash == <<"f", "l", "a", "s", "h">>
Pat_25 == <<"2", ".", "5">>

\* Optional times.
NoTime == [some |-> FALSE, t |-> 0]
SomeTime(t) == [some |-> TRUE, t |-> t]

\* quotaInfo.remainingFraction: absent, or a number.
NoFraction == [some |-> FALSE, v |-> 0]
FractionValues == {-30, 40, 140}
Fractions == {NoFraction} \cup {[some |-> TRUE, v |-> v] : v \in FractionValues}

\* quotaInfo.resetTime: absent, a string that is no timestamp, or a timestamp.
NoResetText == [some |-> FALSE, wellformed |-> FALSE, t |-> 0]
ResetValues == {15, 40}
ResetTexts ==
    {NoResetText, [some |-> TRUE, wellformed |-> FALSE, t |-> 0]}
        \cup {[some |-> TRUE, wellformed |-> TRUE, t |-> t] : t \in ResetValues}

\* Values of Utc::now().
NowValues == {10}

\* gemini.rs 477-483: quotaInfo, absent or present.
NoQuota == [some |-> FALSE, fraction |-> NoFraction, reset |-> NoResetText]
QuotaInfos ==
    {[some |-> TRUE, fraction |-> f, reset |-> r] :
        f \in Fractions, r \in ResetTexts}

\* gemini.rs 468-475: the entries of the catalog.
CatalogEntry(nm, q) == [key |-> nm.key, display |-> nm.display, quota |-> q]
Entries == {CatalogEntry(nm, q) : nm \in ModelNames, q \in QuotaInfos \cup {NoQuota}}

\* No iteration has run.
NoEntry == CatalogEntry([key |-> <<>>, display |-> NoString], NoQuota)

\* gemini.rs 266-269: the four buckets.
BucketLabels ==
    {"Claude Models", "Gemini Flash", "Gemini 3 Pro", "Gemini 3 Pro Image"}
EmptyBucket == [some |-> FALSE, pct |-> 0, reset |-> NoTime]
EmptyBuckets == [l \in BucketLabels |-> EmptyBucket]

\* gemini.rs 275: info.display_name.unwrap_or_else(|| model_key.clone()).
DisplayName(e) == IF e.display.some THEN e.display.s ELSE e.key

\* gemini.rs 279: the internal and test models.
SkipModel(lower_name) ==
    StartsWith(lower_name, Pat_Chat) \/ StartsWith(lower_name, Pat_Rev19)

Clamp(v, lo, hi) == IF v < lo THEN lo ELSE IF v > hi THEN hi ELSE v

\* Bug variant: the fraction is used as received.
RemainingFraction_Unclamped(q) == IF q.fraction.some THEN q.fraction.v ELSE 0

\* gemini.rs 282-283: unwrap_or(0.0).clamp(0.0, 1.0).
RemainingFraction(q) ==
    Clamp(IF q.fraction.some THEN q.fraction.v ELSE 0, 0, 100)

\* gemini.rs 284.
RemainingPercent(fraction) == fraction * 100

\* str::parse::<DateTime<Utc>>().ok().
ParseTime(text) == IF text.wellformed THEN SomeTime(text.t) ELSE NoTime

\* Bug variant: an entry without a usable timestamp has no reset time.
ResetTime_NoDefault(q, t_now) ==
    IF q.reset.some THEN ParseTime(q.reset) ELSE NoTime

\* gemini.rs 286-288: the parsed timestamp, or else now + 1 day.
ResetTime(q, t_now) ==
    LET parsed == IF q.reset.some THEN ParseTime(q.reset) ELSE NoTime
    IN IF parsed.some THEN parsed ELSE SomeTime(t_now + 24)

\* Bug variant: `gemini 3 pro' is tested before `gemini 3 pro image'.
BucketOf_ProFirst(lower_name) ==
    IF Contains(lower_name, Pat_Claude) \/ Contains(lower_name, Pat_GptOss)
    THEN "Claude Models"
    ELSE IF Contains(lower_name, Pat_Pro) THEN "Gemini 3 Pro"
    ELSE IF Contains(lower_name, Pat_ProImage) THEN "Gemini 3 Pro Image"
    ELSE IF /\ Contains(lower_name, Pat_Gemini)
            /\ Contains(lower_name, Pat_Flash)
            /\ ~Contains(lower_name, Pat_25)
    THEN "Gemini Flash"
    ELSE "none"

\* gemini.rs 291-302: the bucket of a name.
BucketOf(lower_name) ==
    IF Contains(lower_name, Pat_Claude) \/ Contains(lower_name, Pat_GptOss)
    THEN "Claude Models"
    ELSE IF Contains(lower_name, Pat_ProImage) THEN "Gemini 3 Pro Image"
    ELSE IF Contains(lower_name, Pat_Pro) THEN "Gemini 3 Pro"
    ELSE IF /\ Contains(lower_name, Pat_Gemini)
            /\ Contains(lower_name, Pat_Flash)
            /\ ~Contains(lower_name, Pat_25)
    THEN "Gemini Flash"
    ELSE "none"

\* gemini.rs 275-302: where an entry of that key and displayName goes, if it
\* has quota information.
NameBucket(nm) ==
    LET lower_name == ToLowercase(DisplayName(nm))
    IN IF SkipModel(lower_name) THEN "none" ELSE BucketOf(lower_name)

\* Bug variant: the bucket keeps the largest percentage.
UpdateBucket_Max(old, pct, reset) ==
    IF old.some
    THEN [some |-> TRUE,
          pct |-> IF pct > old.pct THEN pct ELSE old.pct,
          reset |-> IF reset.some /\ old.reset.some /\ reset.t < old.reset.t
                    THEN reset ELSE old.reset]
    ELSE [some |-> TRUE, pct |-> pct, reset |-> reset]

\* Bug variant: the bucket keeps the values of the entry seen last.
UpdateBucket_LastWins(old, pct, reset) ==
    [some |-> TRUE, pct |-> pct, reset |-> reset]

\* gemini.rs 304-321: the smaller percentage and the earlier reset time.
UpdateBucket(old, pct, reset) ==
    IF old.some
    THEN [some |-> TRUE,
          pct |-> IF pct < old.pct THEN pct ELSE old.pct,
          reset |-> IF reset.some /\ old.reset.some /\ reset.t < old.reset.t
                    THEN reset ELSE old.reset]
    ELSE [some |-> TRUE, pct |-> pct, reset |-> reset]

\* gemini.rs 282-288, 304-321: the quota of an entry goes into its bucket.
MergeQuota(b, label, q, t_now) ==
    [b EXCEPT ![label] =
        UpdateBucket(@, RemainingPercent(RemainingFraction(q)),
                     ResetTime(q, t_now))]

\* gemini.rs 273, 304: nothing is done for an entry without quota information
\* or without a bucket.
PlaceQuota(b, label, q, t_now) ==
    IF ~q.some \/ label = "none" THEN b ELSE MergeQuota(b, label, q, t_now)

\* gemini.rs 272-323: one iteration of the loop over the catalog.
MergeEntry(b, e, t_now) == PlaceQuota(b, NameBucket(e), e.quota, t_now)

\* gemini.rs 271-324: the loop over the entries that go into buckets, in the
\* order of the sequence.
RECURSIVE AggregateLoop(_, _, _)
AggregateLoop(b, placed, t_now) ==
    IF placed = <<>> THEN b
    ELSE AggregateLoop(
             PlaceQuota(b, Head(placed).label, Head(placed).quota, t_now),
             Tail(placed), t_now)

\* Bug variant: the entries are pushed in the order the buckets are declared.
EmitOrder_AsDeclared ==
    <<"Claude Models", "Gemini 3 Pro", "Gemini Flash", "Gemini 3 Pro Image">>

\* gemini.rs 329-359: the order of the four pushes.
EmitOrder ==
    <<"Claude Models", "Gemini Flash", "Gemini 3 Pro", "Gemini 3 Pro Image">>

\* gemini.rs 326-359: one GeminiModelQuota per bucket that is Some.
EmitModels(b) ==
    LET ls == SelectSeq(EmitOrder, LAMBDA l : b[l].some)
    IN [j \in DOMAIN ls |->
           [model |-> ls[j], remaining_percent |-> b[ls[j]].pct,
            reset_time |-> b[ls[j]].reset]]

\* gemini.rs 272-323: an iteration of the loop, the entry being the next the
\* map yields.  Of an entry that went into a bucket, the bucket and the quota
\* information are remembered.
AggStep ==
    /\ pc = "agg_loop"
    /\ Cardinality(seen) < MaxEntries
    /\ \E nm \in ModelNames :
          \E label \in {NameBucket(nm)}, q \in QuotaInfos \cup {NoQuota} :
             /\ bucket' = PlaceQuota(bucket, label, q, now)
             /\ seen' = IF ~q.some \/ label = "none" THEN seen
                        ELSE seen \cup {[label |-> label, quota |-> q]}
    /\ UNCHANGED <<now, last, models, pc>>
    /\ UNCHANGED <<auth_vars, gem_vars, call_vars, out_vars, http>>
    /\ UNCHANGED orch_data

\* gemini.rs 272-323 over a catalog of one entry.
AggOne ==
    /\ pc = "agg_one"
    /\ \E e \in Entries :
          /\ bucket' = MergeEntry(bucket, e, now)
          /\ last' = e
    /\ pc' = "agg_loop_end"
    /\ UNCHANGED <<now, seen, models>>
    /\ UNCHANGED <<auth_vars, gem_vars, call_vars, out_vars, http>>
    /\ UNCHANGED orch_data

\* gemini.rs 326-359: the loop is over, the buckets are converted.
AggEmit ==
    /\ pc \in {"agg_loop", "agg_loop_end"}
    /\ models' = EmitModels(bucket)
    /\ pc' = "agg_done"
    /\ UNCHANGED <<now, bucket, seen, last>>
    /\ UNCHANGED <<auth_vars, gem_vars, call_vars, out_vars, http>>
    /\ UNCHANGED orch_data

\* The state at gemini.rs 271, before the loop.
AggStart ==
    /\ now \in NowValues
    /\ bucket = EmptyBuckets
    /\ seen = {}
    /\ last = NoEntry
    /\ models = <<>>
    /\ AuthIdle /\ GemIdle /\ CallIdle /\ OutIdle /\ http = <<>>
    /\ OrchIdle

InitAgg == AggStart /\ pc = "agg_loop"
NextAgg == AggStep \/ AggEmit

\* The aggregation of a catalog of which up to MaxEntries entries go into
\* buckets, in any order of iteration.
SpecAgg == InitAgg /\ [][NextAgg]_vars

InitEntry == AggStart /\ pc = "agg_one"
NextEntry == AggOne \/ AggEmit

\* The aggregation of a catalog of one entry.
SpecEntry == InitEntry /\ [][NextEntry]_vars

-----------------------------------------------------------------------------
\* GeminiProvider::fetch (gemini.rs 381-434) and fetch_account_quota
\* (gemini.rs 233-260): the account loop and the HTTP calls of an account.

\* Optional project ids.
NoProject == [some |-> FALSE, id |-> ""]
SomeProject(id) == [some |-> TRUE, id |-> id]

\* auth.rs 46-61: the accounts of the file, the email being the position.
AccountShapes ==
    [project_id : {NoProject, SomeProject("P")},
     managed_project_id : {NoProject, SomeProject("M")}]
AccountLists ==
    {[k \in DOMAIN shapes |->
         [email |-> k, project_id |-> shapes[k].project_id,
          managed_project_id |-> shapes[k].managed_project_id]] :
        shapes \in SeqsUpTo(AccountShapes, MaxAccounts)}

\* What read_antigravity_accounts returns to fetch (auth.rs 124-136).
StoreReads ==
    {[ok |-> FALSE, some |-> FALSE, err |-> e, accounts |-> <<>>,
      active_index |-> 0] : e \in {"IoError", "JsonError"}}
        \cup {[ok |-> TRUE, some |-> FALSE, err |-> "none", accounts |-> <<>>,
               active_index |-> 0]}
        \cup {[ok |-> TRUE, some |-> TRUE, err |-> "none", accounts |-> as,
               active_index |-> a] :
                  as \in AccountLists, a \in 0..MaxAccounts}

\* How an HTTP call ends: a 2xx answer that decodes, a transport error or
\* timeout, a non-2xx status, a 2xx answer whose body does not decode.
CallFailures == {"transport", "status", "body"}

\* gemini.rs 445-452: cloudaicompanionProject of the loadCodeAssist answer:
\* absent, not a string, or a string, given by its parts between slashes.
ProjectRefs ==
    {[kind |-> "absent", parts |-> <<>>], [kind |-> "object", parts |-> <<>>],
     [kind |-> "string", parts |-> <<"L">>],
     [kind |-> "string", parts |-> <<"folders", "L">>],
     [kind |-> "string", parts |-> <<"projects", "L", "locations", "eu">>]}

\* gemini.rs 456-458: the catalog of a fetchAvailableModels answer: no models
\* field, or entries.
Catalogs ==
    {[some |-> FALSE, entries |-> <<>>],
     [some |-> TRUE,
      entries |->
        <<CatalogEntry(Name_Claude,
              [some |-> TRUE, fraction |-> [some |-> TRUE, v |-> 40],
               reset |-> NoResetText]),
          CatalogEntry(Name_GptOss,
              [some |-> TRUE, fraction |-> [some |-> TRUE, v |-> 140],
               reset |-> [some |-> TRUE, wellformed |-> TRUE, t |-> 15]])>>]}

\* Result values of fetch.
NotReturned == [ok |-> FALSE, err |-> "pending", accounts |-> <<>>]
FetchFails(e) == [ok |-> FALSE, err |-> e, accounts |-> <<>>]

\* gemini.rs 100-124: the error refresh_access_token returns for a call that
\* failed.
RefreshError(r) == IF r = "status" THEN "TokenRefreshError" ELSE "NetworkError"

\* gemini.rs 140-166, 206-229: the error load_code_assist and
\* fetch_available_models return for a call that failed.
ApiCallError(r) == IF r = "status" THEN "ApiError" ELSE "NetworkError"

\* Bug variant: managedProjectId is not looked at.
AccountProject_IgnoreManaged(account) == account.project_id

\* gemini.rs 247-248: account.project_id.or_else(|| account.managed_project_id).
AccountProject(account) ==
    IF account.project_id.some THEN account.project_id
    ELSE account.managed_project_id

\* gemini.rs 170-181: extract_project_id.
ExtractProjectId(ref) ==
    IF /\ ref.kind = "string"
       /\ Len(ref.parts) >= 2
       /\ ref.parts[1] = "projects"
    THEN SomeProject(ref.parts[2])
    ELSE NoProject

\* gemini.rs 271-324: the loop over the entries of a catalog.
RECURSIVE AggregateCatalog(_, _, _)
AggregateCatalog(b, entries, t_now) ==
    IF entries = <<>> THEN b
    ELSE AggregateCatalog(MergeEntry(b, Head(entries), t_now),
                          Tail(entries), t_now)

\* The values of --timeout the runs are made with (cli.rs 34-35: u64, the
\* default is 10).
TimeoutValues == {5, 10, 30}

\* gemini.rs 105: .timeout(Duration::from_secs(10)) of the token refresh.
RefreshTimeoutSecs == 10

\* The body of an answer, where the code reads it.
NoBody == [kind |-> "none"]
RefBody(ref) == [kind |-> "ref", ref |-> ref]
CatalogBody(c) == [kind |-> "catalog", catalog |-> c]

\* An HTTP call as logged: the provider and account it is made for, the
\* request (endpoint, project of the payload, timeout set on it) and the answer.
HttpCall(provider, email, call, project, t, response, body) ==
    [provider |-> provider, account |-> email, call |-> call,
     project |-> project, timeout |-> t, response |-> response, body |-> body]

\* What an HTTP call is made of, apart from the answer.
Request(c) ==
    [provider |-> c.provider, account |-> c.account, call |-> c.call,
     project |-> c.project, timeout |-> c.timeout]

\* The call is sent and answered.  The remote services answer the calls of a
\* re-execution as they answered the first execution: the same request at the
\* same place gets the same answer.
Answered(c) ==
    /\ http' = Append(http, c)
    /\ (phase = 2 /\ Len(http) < Len(prev.http)
          /\ Request(prev.http[Len(http) + 1]) = Request(c))
            => c = prev.http[Len(http) + 1]

\* The lines of the two verbose blocks around a request (gemini.rs 91-93 and
\* 110-112, and alike in every provider): the request before it is sent, the
\* status once an answer has arrived.
VerboseLines(v, provider, call, response) ==
    IF ~v THEN <<>>
    ELSE <<[provider |-> provider, line |-> "request", what |-> call]>>
            \o (IF response = "transport" THEN <<>>
                ELSE <<[provider |-> provider, line |-> "status",
                        what |-> IF response = "status" THEN "non-2xx"
                                 ELSE "2xx"]>>)

\* gemini.rs 240-242, 394-396: a verbose line that is no request and no status.
VerboseNote(v, provider, what) ==
    IF v THEN <<[provider |-> provider, line |-> "note", what |-> what]>>
    ELSE <<>>

\* Bug variant: the error of an account is propagated, which ends the loop.
AccountLoopNext_StopOnErr(k, n, ok) == IF ok THEN k + 1 ELSE n + 1

\* gemini.rs 401-425: after either arm of the match the loop goes on with the
\* next account.
AccountLoopNext(k, n, ok) == k + 1

\* gemini.rs 401, 425: the step of the loop after account idx.
NextAccount(ok) ==
    LET k == AccountLoopNext(idx, Len(store.accounts), ok)
    IN /\ idx' = k
       /\ pc' = IF k > Len(store.accounts) THEN "gem_return" ELSE "gem_refresh"

\* Bug variant: the error of an account is dropped without a warning.
AccountFailed_Silent(e) ==
    /\ NextAccount(FALSE)
    /\ UNCHANGED <<account_data, acct_warnings>>

\* gemini.rs 404-423: Err(e) of fetch_account_quota: the warning.
AccountFailed(e) ==
    /\ acct_warnings' = Append(acct_warnings, [email |-> store.accounts[idx].email,
                                               error |-> ErrToString(e)])
    /\ NextAccount(FALSE)
    /\ UNCHANGED account_data

\* gemini.rs 382-400: fetch reads the accounts.
GemFetchStart ==
    /\ pc = "gem_start"
    /\ IF ~store.ok
       THEN /\ fetch_ret' = FetchFails(store.err)
            /\ pc' = "gem_done"
            /\ UNCHANGED idx
       ELSE IF ~store.some \/ store.accounts = <<>>
       THEN /\ fetch_ret' = FetchFails("ProviderNotConfigured")
            /\ pc' = "gem_done"
            /\ UNCHANGED idx
       ELSE /\ idx' = 1
            /\ pc' = "gem_refresh"
            /\ UNCHANGED fetch_ret
    /\ vlog' = IF pc' = "gem_refresh"
               THEN vlog \o VerboseNote(verbose, "gemini", "accounts")
               ELSE vlog
    /\ UNCHANGED <<store, project_id, account_data, acct_warnings, http>>
    /\ UNCHANGED <<call_args, out_vars>>
    /\ UNCHANGED <<orch_data, auth_vars, agg_vars>>

\* gemini.rs 244-248: the token refresh of the account, then its own project.
GemRefresh ==
    /\ pc = "gem_refresh"
    /\ \E r \in {"ok"} \cup CallFailures :
          /\ Answered(HttpCall("gemini", store.accounts[idx].email,
                                "refresh", NoProject, RefreshTimeoutSecs, r,
                                NoBody))
          /\ vlog' = vlog \o VerboseNote(verbose, "gemini", "account")
                          \o VerboseLines(verbose, "gemini", "refresh", r)
          /\ IF r = "ok"
             THEN /\ project_id' = AccountProject(store.accounts[idx])
                  /\ pc' = IF project_id'.some THEN "gem_models"
                           ELSE "gem_assist"
                  /\ UNCHANGED <<idx, account_data, acct_warnings>>
             ELSE /\ AccountFailed(RefreshError(r))
                  /\ UNCHANGED project_id
    /\ UNCHANGED <<store, fetch_ret>>
    /\ UNCHANGED <<call_args, out_vars>>
    /\ UNCHANGED <<orch_data, auth_vars, agg_vars>>

\* gemini.rs 251-258: loadCodeAssist, for an account without a project.
GemLoadCodeAssist ==
    /\ pc = "gem_assist"
    /\ \/ \E ref \in ProjectRefs :
             /\ Answered(HttpCall("gemini",
                                   store.accounts[idx].email, "loadCodeAssist",
                                   NoProject, timeout, "ok", RefBody(ref)))
             /\ vlog' = vlog \o VerboseLines(verbose, "gemini",
                                             "loadCodeAssist", "ok")
             /\ project_id' = ExtractProjectId(ref)
       \/ \E r \in CallFailures :
             /\ Answered(HttpCall("gemini",
                                   store.accounts[idx].email, "loadCodeAssist",
                                   NoProject, timeout, r, NoBody))
             /\ vlog' = vlog \o VerboseLines(verbose, "gemini",
                                             "loadCodeAssist", r)
             /\ project_id' = NoProject
    /\ pc' = "gem_models"
    /\ UNCHANGED <<store, idx, account_data, acct_warnings, fetch_ret>>
    /\ UNCHANGED <<call_args, out_vars>>
    /\ UNCHANGED <<orch_data, auth_vars, agg_vars>>

\* gemini.rs 260-366, 402-403: fetchAvailableModels, the aggregation of the
\* catalog, and the push of the account.
GemFetchModels ==
    /\ pc = "gem_models"
    /\ \/ \E c \in Catalogs, t \in NowValues :
             /\ Answered(HttpCall("gemini",
                                   store.accounts[idx].email,
                                   "fetchAvailableModels", project_id, timeout,
                                   "ok", CatalogBody(c)))
             /\ vlog' = vlog \o VerboseLines(verbose, "gemini",
                                             "fetchAvailableModels", "ok")
             /\ account_data' = Append(account_data,
                   [email |-> store.accounts[idx].email,
                    is_active |-> (idx - 1 = store.active_index),
                    models |-> EmitModels(
                        AggregateCatalog(EmptyBuckets, c.entries, t))])
             /\ NextAccount(TRUE)
             /\ UNCHANGED acct_warnings
       \/ \E r \in CallFailures :
             /\ Answered(HttpCall("gemini",
                                   store.accounts[idx].email,
                                   "fetchAvailableModels", project_id, timeout,
                                   r, NoBody))
             /\ vlog' = vlog \o VerboseLines(verbose, "gemini",
                                             "fetchAvailableModels", r)
             /\ AccountFailed(ApiCallError(r))
    /\ UNCHANGED <<store, project_id, fetch_ret>>
    /\ UNCHANGED <<call_args, out_vars>>
    /\ UNCHANGED <<orch_data, auth_vars, agg_vars>>

\* gemini.rs 427-433: after the loop.
GemReturn ==
    /\ pc = "gem_return"
    /\ fetch_ret' = GeminiFetchReturn(account_data)
    /\ pc' = "gem_done"
    /\ UNCHANGED <<store, idx, project_id, account_data, acct_warnings, http>>
    /\ UNCHANGED <<call_vars, out_vars>>
    /\ UNCHANGED <<orch_data, auth_vars, agg_vars>>

InitGemini ==
    /\ store \in StoreReads
    /\ idx = 0
    /\ project_id = NoProject
    /\ account_data = <<>>
    /\ acct_warnings = <<>>
    /\ fetch_ret = NotReturned
    /\ http = <<>>
    /\ OutIdle
    /\ fetcher = "gemini"
    /\ timeout \in TimeoutValues
    /\ verbose \in BOOLEAN
    /\ vlog = <<>>
    /\ AuthIdle /\ AggIdle
    /\ OrchIdle
    /\ pc = "gem_start"

NextGemini ==
    \/ GemFetchStart
    \/ GemRefresh
    \/ GemLoadCodeAssist
    \/ GemFetchModels
    \/ GemReturn

\* One call of GeminiProvider::fetch.
SpecGemini == InitGemini /\ [][NextGemini]_vars

-----------------------------------------------------------------------------
\* fetch of ClaudeProvider (claude.rs 35-95), CodexProvider (codex.rs 51-107)
\* and CopilotProvider (copilot.rs 23-159, 174-232).

\* The providers that read their token from auth.json.
TokenProviders == {"claude", "codex", "copilot"}

\* claude.rs 41-43, codex.rs 57-59, copilot.rs 180-182: the entry of auth.json
\* the fetch takes its token from.
AuthEntry(p) ==
    CASE p = "claude" -> "anthropic"
      [] p = "codex" -> "openai"
      [] p = "copilot" -> "github-copilot"

\* Ok(ProviderData) of these providers; overage_charges is the Option that
\* fetch_billing_data returns (copilot.rs 220-229).
FetchReturnsOk(overage) ==
    [ok |-> TRUE, err |-> "none", accounts |-> <<>>, overage |-> overage]

\* copilot.rs 73-79: the answer of api.github.com/user has a login string.
UserBodies == {[kind |-> "user", login |-> l] : l \in BOOLEAN}

\* Bug variant: every provider goes on to the billing calls.
FetchesBilling_Every(p) == TRUE

\* copilot.rs 220: of the three, only CopilotProvider::fetch goes on to
\* fetch_billing_data; claude.rs 74-94 and codex.rs 94-106 build the data.
FetchesBilling(p) == p = "copilot"

\* Bug variant: the status is tested inside the verbose block.
StatusIsError_InVerboseBlock(v, response) == v /\ response = "status"

\* claude.rs 58-70, codex.rs 78-90, copilot.rs 203-214: after the verbose
\* block, `if !status.is_success()' returns the error.
StatusIsError(v, response) == response = "status"

\* claude.rs 52-72 (codex.rs 68-92, copilot.rs 192-216): what is left of the
\* fetch after the answer of the usage request: the error returned, or none.
UsageError(v, response) ==
    IF response = "transport" THEN "NetworkError"
    ELSE IF StatusIsError(v, response) THEN "ApiError"
    ELSE IF response = "body" THEN "NetworkError"
    ELSE "none"

\* claude.rs 36-43, codex.rs 52-59, copilot.rs 175-182: the token is read.
ApiFetchStart ==
    /\ pc = "api_start"
    /\ LET auth == ReadOpencodeAuth(home, auth_file)
       IN IF ~auth.ok
          THEN /\ fetch_ret' = FetchFails(auth.err)
               /\ pc' = "api_done"
          ELSE IF ~auth.some \/ AuthEntry(fetcher) \notin auth.keys
          THEN /\ fetch_ret' = FetchFails("ProviderNotConfigured")
               /\ pc' = "api_done"
          ELSE /\ pc' = "api_usage"
               /\ UNCHANGED fetch_ret
    /\ UNCHANGED <<store, idx, project_id, account_data, acct_warnings, http>>
    /\ UNCHANGED <<call_vars, out_vars>>
    /\ UNCHANGED <<orch_data, auth_vars, agg_vars>>

\* claude.rs 45-95, codex.rs 61-106, copilot.rs 186-216: the usage request.
ApiUsage ==
    /\ pc = "api_usage"
    /\ \E r \in {"ok"} \cup CallFailures :
          /\ Answered(HttpCall(fetcher, 0, "usage", NoProject,
                                           timeout, r, NoBody))
          /\ vlog' = vlog \o VerboseLines(verbose, fetcher, "usage", r)
          /\ IF UsageError(verbose, r) # "none"
             THEN /\ fetch_ret' = FetchFails(UsageError(verbose, r))
                  /\ pc' = "api_done"
             ELSE IF FetchesBilling(fetcher)
             THEN /\ pc' = "api_user"
                  /\ UNCHANGED fetch_ret
             ELSE /\ fetch_ret' = FetchReturnsOk("none")
                  /\ pc' = "api_done"
    /\ UNCHANGED <<store, idx, project_id, account_data, acct_warnings>>
    /\ UNCHANGED <<call_args, out_vars>>
    /\ UNCHANGED <<orch_data, auth_vars, agg_vars>>

\* copilot.rs 30-79: fetch_billing_data: the login of the user.
ApiUser ==
    /\ pc = "api_user"
    /\ \/ \E b \in UserBodies :
             /\ Answered(HttpCall(fetcher, 0, "user", NoProject,
                                              timeout, "ok", b))
             /\ vlog' = vlog \o VerboseLines(verbose, fetcher, "user", "ok")
             /\ IF b.login
                THEN /\ pc' = "api_billing"
                     /\ UNCHANGED fetch_ret
                ELSE /\ fetch_ret' = FetchReturnsOk("none")
                     /\ pc' = "api_done"
       \/ \E r \in CallFailures :
             /\ Answered(HttpCall(fetcher, 0, "user", NoProject,
                                              timeout, r, NoBody))
             /\ vlog' = vlog \o VerboseLines(verbose, fetcher, "user", r)
             /\ fetch_ret' = FetchReturnsOk("none")
             /\ pc' = "api_done"
    /\ UNCHANGED <<store, idx, project_id, account_data, acct_warnings>>
    /\ UNCHANGED <<call_args, out_vars>>
    /\ UNCHANGED <<orch_data, auth_vars, agg_vars>>

\* copilot.rs 81-158, 220-231: fetch_billing_data: the billing usage; then
\* fetch returns the data.
ApiBilling ==
    /\ pc = "api_billing"
    /\ \E r \in {"ok"} \cup CallFailures :
          /\ Answered(HttpCall(fetcher, 0, "billing", NoProject,
                                           timeout, r, NoBody))
          /\ vlog' = vlog \o VerboseLines(verbose, fetcher, "billing", r)
          /\ fetch_ret' = FetchReturnsOk(IF r = "ok" THEN "some" ELSE "none")
    /\ pc' = "api_done"
    /\ UNCHANGED <<store, idx, project_id, account_data, acct_warnings>>
    /\ UNCHANGED <<call_args, out_vars>>
    /\ UNCHANGED <<orch_data, auth_vars, agg_vars>>

InitApi ==
    /\ OutIdle
    /\ fetcher \in TokenProviders
    /\ timeout \in TimeoutValues
    /\ verbose \in BOOLEAN
    /\ vlog = <<>>
    /\ home \in BOOLEAN
    /\ data_dir = TRUE
    /\ auth_file \in AuthFiles
    /\ anti_files = [k \in 1..3 |-> "absent"]
    /\ auth_ret = NotAsked
    /\ store = <<>>
    /\ idx = 0
    /\ project_id = NoProject
    /\ account_data = <<>>
    /\ acct_warnings = <<>>
    /\ fetch_ret = NotReturned
    /\ http = <<>>
    /\ AggIdle
    /\ OrchIdle
    /\ pc = "api_start"

NextApi ==
    \/ ApiFetchStart
    \/ ApiUsage
    \/ ApiUser
    \/ ApiBilling

\* One call of fetch of claude, codex or copilot.
SpecApi == InitApi /\ [][NextApi]_vars

-----------------------------------------------------------------------------
\* main in the sequential mode, every fetch being the fetch of the provider
\* (main.rs 150-173 with the providers' fetch functions).

\* The runs have at most this many providers.
MaxRunProviders == 1

\* What fetch hands to main: Result<ProviderData>.
FetchResult(name, ret) ==
    IF ret.ok THEN FetchOk(name) ELSE FetchErr(ret.err)

\* main.rs 157: provider.fetch(timeout, verbose) of the provider the loop is
\* at is entered.
RunFetchBegin ==
    /\ pc = "seq_await"
    /\ fst[i] = "running"
    /\ fetcher' = providers[i]
    /\ pc' = IF providers[i] = "gemini" THEN "gem_start" ELSE "api_start"
    /\ idx' = 0
    /\ project_id' = NoProject
    /\ account_data' = <<>>
    /\ acct_warnings' = <<>>
    /\ fetch_ret' = NotReturned
    /\ UNCHANGED <<store, timeout, verbose, vlog, http>>
    /\ UNCHANGED <<orch_data, auth_vars, agg_vars, out_vars>>

\* main.rs 157: the fetch returns to the `.await' of main.
RunFetchEnd ==
    /\ pc \in {"gem_done", "api_done"}
    /\ fst[i] = "running"
    /\ backend' = (i :> FetchResult(fetcher, fetch_ret)) @@ backend
    /\ fst' = [fst EXCEPT ![i] = "done"]
    /\ order' = Append(order, i)
    /\ pc' = "seq_await"
    /\ UNCHANGED <<args_provider, concurrent, cred, providers,
                   configured_count, futures, i, outcomes, results, has_errors,
                   first_warning, warnings, rendered, message, exit_code, calls,
                   reordered, phase, prev, silent, counted>>
    /\ UNCHANGED comp_vars

\* cli.rs 34: default_value = "10" of --timeout.
DefaultTimeout == 10

\* The states of auth.json the runs for these providers are made with: the
\* entries of providers that are not asked for are left out.
RunAuthFiles(names) ==
    IF Range(names) \subseteq {"gemini"}
    THEN {[state |-> "absent", keys |-> {}]}
    ELSE {f \in AuthFiles :
             f.keys \subseteq {AuthEntry(p) : p \in Range(names) \ {"gemini"}}}

\* The states of antigravity-accounts.json the runs for these providers are
\* made with: no file when gemini is not asked for.
RunStores(names) ==
    IF "gemini" \in Range(names) THEN StoreReads
    ELSE {s \in StoreReads : s.ok /\ ~s.some}

\* The command line, the credential files, and what is_configured answers
\* for them.
InitRun ==
    /\ args_provider \in
          {a \in SeqsUpTo(ProviderArg, MaxArgs) :
              Len(ResolveProviderNames(a)) <= MaxRunProviders}
    /\ home = TRUE
    /\ data_dir = TRUE
    /\ auth_file \in RunAuthFiles(ResolveProviderNames(args_provider))
    /\ anti_files = [k \in 1..3 |-> "absent"]
    /\ auth_ret = NotAsked
    /\ store \in RunStores(ResolveProviderNames(args_provider))
    /\ cred = [p \in ProviderNames |->
                 UnwrapOrFalse(IsProviderConfigured(p,
                     ReadOpencodeAuth(home, auth_file), store))]
    /\ concurrent = FALSE
    /\ OutIdle
    /\ timeout = DefaultTimeout
    /\ verbose \in BOOLEAN
    /\ fetcher = "none"
    /\ vlog = <<>>
    /\ http = <<>>
    /\ idx = 0
    /\ project_id = NoProject
    /\ account_data = <<>>
    /\ acct_warnings = <<>>
    /\ fetch_ret = NotReturned
    /\ AggIdle
    /\ backend = <<>>
    /\ pc = "start"
    /\ providers = <<>>
    /\ configured_count = 0
    /\ futures = <<>>
    /\ i = 1
    /\ outcomes = <<>>
    /\ results = <<>>
    /\ has_errors = FALSE
    /\ first_warning = TRUE
    /\ warnings = <<>>
    /\ rendered = NotRendered
    /\ message = MsgNone
    /\ exit_code = 0
    /\ fst = <<>>
    /\ calls = <<>>
    /\ order = <<>>
    /\ reordered = FALSE
    /\ phase = 1
    /\ prev = <<>>
    /\ silent = {}
    /\ counted = <<>>

NextRun ==
    \/ Build
    \/ Check
    \/ SeqNext
    \/ RunFetchBegin
    \/ NextGemini
    \/ NextApi
    \/ RunFetchEnd
    \/ SeqRecord
    \/ ExitSelect

\* One sequential execution of the tool with the fetches it makes.
SpecRun == InitRun /\ [][NextRun]_vars

\* The same command is executed again with --verbose the other way, against
\* the same credential files and remote services.
RunOtherVerbose ==
    /\ pc = "done"
    /\ phase = 1
    /\ phase' = 2
    /\ prev' = [results |-> results, exit_code |-> exit_code,
                condition |-> Condition, http |-> http]
    /\ verbose' = ~verbose
    /\ FreshProcess
    /\ backend' = <<>>
    /\ fetcher' = "none"
    /\ vlog' = <<>>
    /\ http' = <<>>
    /\ idx' = 0
    /\ project_id' = NoProject
    /\ account_data' = <<>>
    /\ acct_warnings' = <<>>
    /\ fetch_ret' = NotReturned
    /\ UNCHANGED <<args_provider, concurrent, cred, silent, store, timeout>>
    /\ UNCHANGED <<auth_vars, agg_vars, out_vars>>

\* An execution, then the same command with --verbose the other way.
SpecVerbose == InitRun /\ [][NextRun \/ RunOtherVerbose]_vars

-----------------------------------------------------------------------------
\* The status of Codex data: ProviderData::status (providers/mod.rs 140-177)
\* and the two rows add_codex_rows pushes to the table (output/table.rs
\* 282-328).

\* providers/mod.rs 89-92, codex.rs 134-135: used_percent is an i32 taken from
\* the answer of the usage API as it is.
UsedPercents == {0, 49, 50, 79, 80, 81, 100}

\* providers/mod.rs 89-92: resets_in_seconds.
ResetSeconds == {1800, 7260, 172800}

\* providers/mod.rs 88-92: WindowQuota.
WindowQuota(used, resets) ==
    [used_percent |-> used, resets_in_seconds |-> resets]

\* providers/mod.rs 80-85: CodexData.
CodexData(plan, primary, secondary) ==
    [plan |-> plan, primary_window |-> primary, secondary_window |-> secondary]

\* providers/mod.rs 152-158: ProviderData::status, the arm of
\* ProviderData::Codex.
status(data) ==
    IF data.primary_window.used_percent > 80
          \/ data.secondary_window.used_percent > 80
    THEN "Warning" ELSE "Ok"

\* output/table.rs 472-478.
get_row_status(used_percent) ==
    IF used_percent >= 80 THEN "Warning" ELSE "Ok"

\* output/table.rs 440-447 (the text without its icon).
format_status(st) ==
    CASE st = "Ok" -> "OK"
      [] st = "Warning" -> "WARNING"
      [] st = "Error" -> "ERROR"

\* output/table.rs 450-456.
get_status_color(st) ==
    CASE st = "Ok" -> "FG_GREEN"
      [] st = "Warning" -> "FG_YELLOW"
      [] st = "Error" -> "FG_RED"

\* output/table.rs 460-468.
get_usage_color(percent) ==
    IF percent < 50 THEN "FG_GREEN"
    ELSE IF percent < 80 THEN "FG_YELLOW"
    ELSE "FG_RED"

\* output/table.rs 430-438: the text is kept as its unit pattern and numbers
\* (seconds are not negative here, where / and % of Rust are \div and %).
format_seconds(seconds) ==
    IF seconds > 86400 THEN <<seconds \div 86400, "d">>
    ELSE IF seconds > 3600
         THEN <<seconds \div 3600, "h ", (seconds % 3600) \div 60, "m">>
         ELSE <<seconds \div 60, "m">>

\* format!("{}%", percent).
PercentText(percent) == <<percent, "%">>

\* One record of the table: provider, window, usage, reset, status.
Record(name, window, usage, reset, st) ==
    [name |-> name, window |-> window, usage |-> usage, reset |-> reset,
     status |-> st]

\* output/table.rs 289-327: the record of one window and, with colours, its
\* two cell colours.
WindowRecord(name, window, q) ==
    Record(name, window, PercentText(q.used_percent),
           format_seconds(q.resets_in_seconds),
           format_status(get_row_status(q.used_percent)))

WindowColors(row, q) ==
    << <<row, 2, get_usage_color(q.used_percent)>>,
       <<row, 4, get_status_color(get_row_status(q.used_percent))>> >>

\* providers/mod.rs 141: data.status() is asked for the displayed data.
Status ==
    /\ pc = "out"
    /\ data_status = NoStatus
    /\ data_status' = status(codex)
    /\ UNCHANGED <<codex, no_color, start_row, rows, cell_colors>>
    /\ UNCHANGED <<pc, orch_data, auth_vars, gem_vars, agg_vars, call_vars,
                   http>>

\* output/table.rs 282-328: add_codex_rows.
AddCodexRows ==
    /\ pc = "out"
    /\ rows = <<>>
    /\ rows' = << WindowRecord("Codex", "Primary", codex.primary_window),
                  WindowRecord("", "Secondary", codex.secondary_window) >>
    /\ cell_colors' =
          IF no_color THEN cell_colors
          ELSE cell_colors
                 \o WindowColors(start_row, codex.primary_window)
                 \o WindowColors(start_row + 1, codex.secondary_window)
    /\ UNCHANGED <<codex, no_color, start_row, data_status>>
    /\ UNCHANGED <<pc, orch_data, auth_vars, gem_vars, agg_vars, call_vars,
                   http>>

\* Codex data with any pair of used percentages is displayed as the first
\* provider of the table.
InitStatus ==
    /\ pc = "out"
    /\ \E p, q \in UsedPercents : \E r \in ResetSeconds :
          codex = CodexData("plus", WindowQuota(p, r), WindowQuota(q, r))
    /\ no_color \in BOOLEAN
    /\ start_row = 1
    /\ rows = <<>>
    /\ cell_colors = <<>>
    /\ data_status = NoStatus
    /\ OrchIdle
    /\ AuthIdle /\ GemIdle /\ AggIdle /\ CallIdle /\ http = <<>>

NextStatus == Status \/ AddCodexRows

SpecStatus == InitStatus /\ [][NextStatus]_vars

-----------------------------------------------------------------------------
\* main while the credential files change under it.

\* main.rs 118, 153: the provider positions whose is_configured is still to
\* be asked a second time, when the providers to fetch are selected.
ToBeSelected ==
    IF pc \in {"check", "conc_create"} THEN DOMAIN providers
    ELSE IF pc = "seq_loop" THEN i..Len(providers)
    ELSE IF pc = "seq_await" THEN (i + 1)..Len(providers)
    ELSE {}

\* The credential files change between two uses: a provider is logged in or
\* out.  is_configured is asked when the providers are counted (main.rs 55-88)
\* and again when those to fetch are selected.  A change that no later
\* is_configured reads is left out.
CredChange ==
    /\ \E p \in {providers[k] : k \in ToBeSelected} :
          cred' = [cred EXCEPT ![p] = ~cred[p]]
    /\ UNCHANGED <<args_provider, concurrent, backend, pc, providers,
                   configured_count, futures, i, outcomes, results, has_errors,
                   first_warning, warnings, rendered, message, exit_code, fst,
                   calls, order, reordered, phase, prev>>
    /\ UNCHANGED <<silent, counted, comp_vars>>

\* claude.rs 36-43, gemini.rs 383-392: a fetch that no longer finds the
\* credentials returns ProviderNotConfigured.
RacedOutcomes(name) ==
    FetchOutcomes(name) \cup {FetchErr("ProviderNotConfigured")}

NextRace ==
    \/ Build
    \/ Check
    \/ ConcCreate
    \/ ConcPoll
    \/ \E k \in DOMAIN fst : FetchCompleteWith(k, RacedOutcomes(providers[k]))
    \/ JoinAll
    \/ ConcRecord
    \/ SeqNext
    \/ SeqRecord
    \/ ExitSelect
    \/ CredChange

\* One execution of the tool while credentials come and go.
SpecRace == Init /\ [][NextRace]_vars

-----------------------------------------------------------------------------
\* Vocabulary of the properties.

Done == pc = "done"

\* The execution got past the configuration checks.
PassedChecks == pc \notin {"start", "check"} /\ message \notin
                    {MsgNoProvidersSpecified, MsgNoProvidersConfigured}

\* Positions of the provider list whose provider has credentials.
Conf == {k \in DOMAIN providers : cred[providers[k]]}
ConfSeq == SortedSeq(Conf)

\* Positions whose fetch returned Ok, respectively Err.
Succeeded == {k \in DOMAIN fst : fst[k] = "done" /\ backend[k].ok}
Errored == {k \in DOMAIN fst : fst[k] = "done" /\ ~backend[k].ok}

\* The Result Set entry the outcome of position k is to become.
EntryOf(k) ==
    IF backend[k].ok THEN Snapshot(providers[k])
    ELSE Failed(providers[k], ErrToString(backend[k].err))

NamesOf(rs) == [k \in DOMAIN rs |-> provider_name(rs[k])]
FailedIn(rs) == SelectSeq(rs, IsFailed)

\* C1: in either mode the names of the Result Set entries are, at every moment,
\* a prefix of the configured providers in the order of the provider list, and
\* at the end all of them, whatever the order in which the fetches completed.
C1_RequestOrder ==
    PassedChecks =>
        /\ Len(results) <= Len(ConfSeq)
        /\ NamesOf(results) = [j \in DOMAIN results |-> providers[ConfSeq[j]]]
        /\ Done => Len(results) = Len(ConfSeq)

\* A concurrent execution over a list that is not in the built-in order, whose
\* fetches completed in another order than the list's.
C1_Witness ==
    /\ Done /\ concurrent /\ reordered
    /\ Len(results) = 2
    /\ providers = <<"claude", "gemini">>
    /\ NamesOf(results) = <<"claude", "gemini">>

\* C2: executed in the other scheduling mode against the same provider list,
\* credentials and backend answers, the tool ends with the same Result Set and
\* the same exit code.
C2_ModesAgree ==
    (phase = 2 /\ Done) =>
        /\ results = prev.results
        /\ exit_code = prev.exit_code

\* The concurrent re-execution of a sequential partial success, with the
\* fetches completing out of list order.
C2_Witness ==
    /\ phase = 2 /\ Done /\ concurrent /\ reordered
    /\ Len(results) >= 3
    /\ FailedIn(results) # <<>>
    /\ FailedIn(results) # results
    /\ exit_code = 1

\* C3: past the configuration checks every configured provider is fetched
\* once, unconfigured ones never; at the end the Result Set holds, for each
\* configured provider in turn, its snapshot or a Failed entry with its name
\* and error message, and one warning was printed per failure.
C3_OneEntryPerConfigured ==
    /\ \A k \in DOMAIN calls :
          /\ calls[k] <= 1
          /\ ~cred[providers[k]] => (calls[k] = 0 /\ fst[k] = "idle")
    /\ (Done /\ PassedChecks) =>
          /\ \A k \in Conf : calls[k] = 1 /\ fst[k] = "done"
          /\ results = [j \in DOMAIN ConfSeq |-> EntryOf(ConfSeq[j])]
          /\ warnings = [j \in DOMAIN FailedIn(results) |->
                           [provider |-> FailedIn(results)[j].provider,
                            error |-> FailedIn(results)[j].error]]

\* Three configured providers of which the second fails, and an unconfigured
\* one in the list.
C3_Witness ==
    /\ Done /\ ~concurrent
    /\ Len(providers) = 4 /\ Len(results) = 3
    /\ ~IsFailed(results[1]) /\ IsFailed(results[2]) /\ ~IsFailed(results[3])
    /\ Len(warnings) = 1
    /\ warnings[1].provider = provider_name(results[2])

\* The exit codes main gives the terminal conditions.
ExitCodeOf(c) ==
    CASE c = "no providers specified" -> 2
      [] c = "no providers configured" -> 2
      [] c = "all failed" -> 1
      [] c = "partial success" -> 1
      [] c = "full success" -> 0

\* C4 as stated: two executions that end in different terminal conditions end
\* with different exit codes.
C4_DistinctExitCodes ==
    (phase = 2 /\ Done /\ prev.condition # Condition) =>
        prev.exit_code # exit_code

\* C4 as amended: the conditions map to three exit codes: both configuration
\* errors to 2, all-failed and partial success to 1, full success to 0; two
\* executions end with the same exit code exactly when their conditions fall in
\* the same of these three classes.
C4_ThreeExitCodes ==
    Done =>
        /\ exit_code = ExitCodeOf(Condition)
        /\ phase = 2 =>
              (exit_code = prev.exit_code <=>
                  ExitCodeOf(Condition) = ExitCodeOf(prev.condition))

\* An execution that failed entirely, then one that succeeded in part: both
\* exit 1.
C4_Witness ==
    /\ phase = 2 /\ Done
    /\ prev.condition = "all failed" /\ Condition = "partial success"
    /\ prev.exit_code = 1 /\ exit_code = 1

\* C5: when every fetch that ran failed, the execution ends as `all failed':
\* only Failed entries, format_output not called, exit code 1.
C5_AllFailed ==
    (Done /\ PassedChecks /\ Succeeded = {}) =>
        /\ message = MsgAllFailed
        /\ \A k \in DOMAIN results : IsFailed(results[k])
        /\ rendered = NotRendered
        /\ exit_code = 1

\* Three providers fetched, all three failed.
C5_Witness ==
    /\ Done /\ PassedChecks /\ Succeeded = {}
    /\ Len(results) = 3 /\ Cardinality(Errored) = 3
    /\ message = MsgAllFailed

\* C6: when a fetch succeeded and another failed, the whole Result Set, its
\* Failed entries included, is given to format_output and the all-failed error
\* is not raised.
C6_PartialSuccess ==
    (Done /\ Succeeded # {} /\ Errored # {}) =>
        /\ rendered = results
        /\ Len(FailedIn(rendered)) = Cardinality(Errored)
        /\ Len(rendered) = Cardinality(Errored) + Cardinality(Succeeded)
        /\ message = MsgNone

\* One success among two failures, rendered.
C6_Witness ==
    /\ Done /\ concurrent
    /\ Cardinality(Succeeded) = 1 /\ Cardinality(Errored) = 2
    /\ rendered = results /\ Len(FailedIn(rendered)) = 2

\* C7: when no provider of the list is configured, the execution stops at the
\* configuration check: no fetch is ever started, the Result Set stays empty,
\* and it ends with the `no providers configured' error and exit code 2.
C7_NoneConfigured ==
    (pc # "start" /\ Conf = {}) =>
        /\ pc \in {"check", "done"}
        /\ \A k \in DOMAIN calls : calls[k] = 0 /\ fst[k] = "idle"
        /\ results = <<>>
        /\ Done => (message = MsgNoProvidersConfigured /\ exit_code = 2)

\* Two providers requested, neither configured, although another provider is.
C7_Witness ==
    /\ Done /\ Conf = {} /\ Len(providers) = 2
    /\ \E p \in ProviderNames : cred[p]
    /\ message = MsgNoProvidersConfigured

\* C8 as stated: with an empty --provider list the execution ends with the
\* `no providers specified' error and no provider is fetched.
C8_NoneRequestedIsError ==
    (Done /\ args_provider = <<>>) =>
        /\ message = MsgNoProvidersSpecified
        /\ \A k \in DOMAIN calls : calls[k] = 0

\* C8 as amended: an empty --provider list stands for all four providers, which
\* are then checked and fetched as usual; the provider list is never empty, so
\* the `no providers specified' error is never raised.
C8_NoneRequestedMeansAll ==
    /\ message # MsgNoProvidersSpecified
    /\ pc # "start" => providers # <<>>
    /\ (pc # "start" /\ args_provider = <<>>) =>
          providers = <<"gemini", "codex", "copilot", "claude">>
    /\ (Done /\ args_provider = <<>> /\ Conf # {}) =>
          \A k \in Conf : calls[k] = 1

\* An empty --provider list, and two providers were queried.
C8_Witness ==
    /\ Done /\ args_provider = <<>>
    /\ Len(results) = 2
    /\ Cardinality({k \in DOMAIN calls : calls[k] = 1}) = 2

\* C9: in concurrent mode, once an outcome is recorded or the exit is being
\* chosen, the fetch of every configured provider has been started and has
\* completed: none is left unstarted or running.
C9_JoinBarrier ==
    (concurrent /\ PassedChecks
        /\ (results # <<>> \/ pc \in {"conc_record", "select", "done"})) =>
        /\ \A k \in Conf : calls[k] = 1 /\ fst[k] = "done"
        /\ Len(outcomes) = Cardinality(Conf)

\* Three fetches joined after completing out of order, the first outcome
\* recorded.
C9_Witness ==
    /\ concurrent /\ pc = "conc_record" /\ reordered
    /\ Len(futures) = 3 /\ Len(results) = 1
    /\ Errored # {}

\* C10: in sequential mode at most one fetch is running, and when the fetch of
\* a provider has been started the outcomes of all configured providers before
\* it in the list are in the Result Set.
C10_OneAtATime ==
    ~concurrent =>
        /\ Cardinality({k \in DOMAIN fst : fst[k] = "running"}) <= 1
        /\ \A k \in DOMAIN fst :
              fst[k] # "idle" =>
                  /\ Len(results) >= Cardinality({j \in Conf : j < k})
                  /\ \A j \in Conf : j < k => fst[j] = "done"

\* The third configured provider is being fetched, two outcomes are recorded.
C10_Witness ==
    /\ ~concurrent /\ pc = "seq_await"
    /\ fst[i] = "running"
    /\ Len(results) = 2
    /\ Cardinality({j \in Conf : j < i}) = 2

\* The place in the Result Set of the outcome of position k.
Rank(k) == Cardinality({j \in Conf : j <= k})

\* C11 as stated: the execution ends, and the entry of a provider whose backend
\* never answered is a Failed entry with the network error.
C11_SilentIsNetworkError ==
    Done => \A k \in silent :
        results[Rank(k)] = Failed(providers[k], ErrToString("NetworkError"))

\* C11 as amended: in either mode every execution ends, with no fetch left
\* running; the entry of a provider whose backend never answered is a Failed
\* entry with its name, whose error is the network error for claude, codex and
\* copilot and the aggregate API error for gemini.
C11_Terminates ==
    /\ <>Done
    /\ [](Done =>
            /\ exit_code \in {0, 1, 2}
            /\ \A k \in DOMAIN fst : fst[k] # "running"
            /\ \A k \in silent :
                  /\ IsFailed(results[Rank(k)])
                  /\ results[Rank(k)].provider = providers[k]
                  /\ results[Rank(k)].error =
                        IF providers[k] = "gemini"
                        THEN ErrToString("ApiError")
                        ELSE ErrToString("NetworkError"))

\* A concurrent execution ended although the backends of gemini and of another
\* provider stayed silent, a third provider having answered.
C11_Witness ==
    /\ Done /\ concurrent
    /\ \E k \in silent : providers[k] = "gemini"
    /\ \E k \in silent : providers[k] # "gemini"
    /\ Succeeded # {}
    /\ exit_code = 1

\* The read of the credential source of provider p fails: the home directory
\* is unknown or auth.json is unreadable or malformed; for gemini, the first
\* antigravity-accounts.json that exists is unreadable or malformed.
FirstExisting(paths) ==
    SelectSeq(paths, LAMBDA k : anti_files[k] # "absent")

SourceReadFails(p) ==
    IF p = "gemini"
    THEN LET ex == FirstExisting(AntigravityPaths(home, data_dir))
         IN ex # <<>> /\ anti_files[Head(ex)] \in {"unreadable", "malformed"}
    ELSE ~home \/ auth_file.state \in {"unreadable", "malformed"}

\* The entry of auth.json that holds the credentials of a provider.
KeyOf(p) ==
    CASE p = "claude" -> "anthropic"
      [] p = "codex" -> "openai"
      [] p = "copilot" -> "github-copilot"

\* C20: is_configured of any provider answers true or false and never fails;
\* when the read or the parse of the provider's credential file fails the
\* answer is false; the answer is true only for credentials that were read;
\* no HTTP call is issued.
C20_IsConfiguredFailSoft ==
    auth_ret # NotAsked =>
        /\ auth_ret.value \in BOOLEAN
        /\ SourceReadFails(auth_ret.provider) => auth_ret.value = FALSE
        /\ (auth_ret.value /\ auth_ret.provider # "gemini") =>
              /\ auth_file.state = "valid"
              /\ KeyOf(auth_ret.provider) \in auth_file.keys
        /\ http = <<>>

\* gemini was asked while the first antigravity-accounts.json that exists is
\* malformed, a valid one lying at a later path: the answer is false.
C20_Witness ==
    /\ auth_ret = [provider |-> "gemini", value |-> FALSE]
    /\ home /\ data_dir
    /\ anti_files = <<"malformed", "absent", "valid">>
    /\ auth_file.state = "unreadable"

\* The name of a catalog entry.
NameOf(e) == [key |-> e.key, display |-> e.display]

\* The buckets that are not empty.
NonEmpty == {l \in BucketLabels : bucket[l].some}

\* The bucket each of the enumerated names is to go to.
ExpectedBucket(nm) ==
    CASE nm = Name_Claude -> "Claude Models"
      [] nm = Name_GptOss -> "Claude Models"
      [] nm = Name_ProImage -> "Gemini 3 Pro Image"
      [] nm = Name_Pro -> "Gemini 3 Pro"
      [] nm = Name_Flash -> "Gemini Flash"
      [] nm = Name_Flash25 -> "none"
      [] nm = Name_ChatClaude -> "none"
      [] nm = Name_Rev19Pro -> "none"
      [] nm = Name_FlashLite -> "none"
      [] nm = Name_KeyFlash -> "Gemini Flash"
      [] nm = Name_KeyChat -> "Gemini 3 Pro"
      [] nm = Name_ProClaude -> "Claude Models"
      [] nm = Name_ProFlash -> "Gemini 3 Pro"

\* C12: an entry goes into at most one bucket; an entry without quota
\* information, or whose lower-cased name starts with chat_ or rev19, goes
\* into none; otherwise the first of these decides: the name contains claude
\* or gpt-oss (Claude Models), gemini 3 pro image (Gemini 3 Pro Image),
\* gemini 3 pro (Gemini 3 Pro), gemini and flash but not 2.5 (Gemini Flash);
\* an entry that matches none of them is dropped.
C12_OneBucketPerEntry ==
    pc \in {"agg_loop_end", "agg_done"} =>
        LET lower == ToLowercase(DisplayName(last))
            has(pat) == Contains(lower, pat)
        IN /\ Cardinality(NonEmpty) <= 1
           /\ ~last.quota.some => NonEmpty = {}
           /\ (StartsWith(lower, Pat_Chat) \/ StartsWith(lower, Pat_Rev19)) =>
                 NonEmpty = {}
           /\ (/\ last.quota.some
               /\ ~StartsWith(lower, Pat_Chat)
               /\ ~StartsWith(lower, Pat_Rev19)) =>
                 NonEmpty =
                    IF has(Pat_Claude) \/ has(Pat_GptOss)
                    THEN {"Claude Models"}
                    ELSE IF has(Pat_ProImage) THEN {"Gemini 3 Pro Image"}
                    ELSE IF has(Pat_Pro) THEN {"Gemini 3 Pro"}
                    ELSE IF has(Pat_Gemini) /\ has(Pat_Flash) /\ ~has(Pat_25)
                    THEN {"Gemini Flash"}
                    ELSE {}
           /\ last.quota.some =>
                 NonEmpty = {ExpectedBucket(NameOf(last))} \ {"none"}

\* The entry named `Gemini 3 Pro Image', which also matches gemini 3 pro, went
\* into the Gemini 3 Pro Image bucket alone.
C12_Witness ==
    /\ pc = "agg_done"
    /\ NameOf(last) = Name_ProImage
    /\ last.quota.some
    /\ NonEmpty = {"Gemini 3 Pro Image"}

\* The quota information of the entries that went into bucket l so far.
SeenIn(l) == {c.quota : c \in {x \in seen : x.label = l}}

MinOf(S) == CHOOSE m \in S : \A x \in S : m <= x

\* The remaining percentage an entry stands for: its remaining fraction, 0 if
\* absent, brought into [0, 1], as a percentage.
ExpectedPercent(q) ==
    LET v == IF q.fraction.some THEN q.fraction.v ELSE 0
    IN IF v > 100 THEN 10000 ELSE IF v < 0 THEN 0 ELSE v * 100

\* The reset time an entry stands for: its timestamp, or now + 24 h.
ExpectedReset(q) ==
    IF q.reset.some /\ q.reset.wellformed THEN q.reset.t ELSE now + 24

\* C13: at every point of the loop a bucket is non-empty exactly when an entry
\* went into it, and its remaining percentage is the smallest of the clamped
\* percentages of the entries that went into it so far.
C13_BucketMinimum ==
    \A l \in BucketLabels :
        /\ bucket[l].some <=> SeenIn(l) # {}
        /\ bucket[l].some =>
              bucket[l].pct = MinOf({ExpectedPercent(q) : q \in SeenIn(l)})

\* Three entries went into one bucket, with 40, 100 and 100 per cent: it holds
\* 40 per cent.
C13_Witness ==
    /\ pc = "agg_loop"
    /\ Cardinality(SeenIn("Gemini Flash")) = 3
    /\ {ExpectedPercent(q) : q \in SeenIn("Gemini Flash")} = {4000, 10000}
    /\ bucket["Gemini Flash"].pct = 4000

\* The orders in which the elements of a set can come.
Orders(S) ==
    {p \in [1..Cardinality(S) -> S] :
        \A a, b \in 1..Cardinality(S) : a # b => p[a] # p[b]}

\* C14: for a fixed now, the buckets, and the list emitted from them, are those
\* the loop yields for the entries that went into buckets in whatever order
\* they come.
C14_OrderIndependent ==
    \A p \in Orders(seen) :
        /\ AggregateLoop(EmptyBuckets, p, now) = bucket
        /\ pc = "agg_done" =>
              EmitModels(AggregateLoop(EmptyBuckets, p, now)) = models

\* A bucket was emitted whose percentage comes from one entry and whose reset
\* time from another, a third bucket entry giving neither.
C14_Witness ==
    /\ pc = "agg_done"
    /\ Len(models) = 1
    /\ \E a, b, c \in SeenIn("Claude Models") :
          /\ ExpectedPercent(a) < ExpectedPercent(b)
          /\ ExpectedPercent(b) < ExpectedPercent(c)
          /\ ExpectedReset(b) < ExpectedReset(c)
          /\ ExpectedReset(c) < ExpectedReset(a)
          /\ models[1].remaining_percent = ExpectedPercent(a)
          /\ models[1].reset_time = SomeTime(ExpectedReset(b))

\* C15: the percentage of a bucket is that of one of its entries with the
\* fraction clamped before the multiplication: 100 per cent for a fraction
\* above 1, 0 for one below 0; every bucket and every emitted entry holds a
\* percentage within [0, 100].
C15_ClampedPercent ==
    /\ \A l \in NonEmpty :
          /\ bucket[l].pct \in {ExpectedPercent(q) : q \in SeenIn(l)}
          /\ bucket[l].pct >= 0 /\ bucket[l].pct <= 10000
          /\ (\A q \in SeenIn(l) : q.fraction.some /\ q.fraction.v > 100) =>
                bucket[l].pct = 10000
          /\ (\E q \in SeenIn(l) : q.fraction.some /\ q.fraction.v < 0) =>
                bucket[l].pct = 0
    /\ \A j \in DOMAIN models :
          models[j].remaining_percent >= 0 /\ models[j].remaining_percent <= 10000

\* One bucket was emitted with 100 per cent from a fraction of 1.4 alone,
\* another with 0 per cent from a fraction of -0.3.
C15_Witness ==
    /\ pc = "agg_done"
    /\ \A q \in SeenIn("Gemini 3 Pro") : q.fraction.some /\ q.fraction.v = 140
    /\ \E q \in SeenIn("Gemini Flash") : q.fraction.some /\ q.fraction.v = -30
    /\ \E j, k \in DOMAIN models :
          /\ models[j].model = "Gemini 3 Pro"
          /\ models[j].remaining_percent = 10000
          /\ models[k].model = "Gemini Flash"
          /\ models[k].remaining_percent = 0

\* C16: every non-empty bucket, and every emitted entry, carries a reset time:
\* the earliest of the reset times of its entries, the reset time of an entry
\* being its timestamp if it has one that parses and now + 24 h otherwise.
C16_EarliestReset ==
    /\ \A l \in NonEmpty :
          /\ bucket[l].reset.some
          /\ bucket[l].reset.t = MinOf({ExpectedReset(q) : q \in SeenIn(l)})
    /\ \A j \in DOMAIN models :
          /\ models[j].reset_time.some
          /\ models[j].reset_time = bucket[models[j].model].reset

\* A bucket of an entry with a later timestamp, one with an unparsable
\* timestamp and one with none: it was emitted with now + 24 h.
C16_Witness ==
    /\ pc = "agg_done"
    /\ \E a, b, c \in SeenIn("Claude Models") :
          /\ a.reset.some /\ a.reset.wellformed /\ a.reset.t > now + 24
          /\ b.reset.some /\ ~b.reset.wellformed
          /\ ~c.reset.some
    /\ models[1].reset_time = SomeTime(now + 24)

\* The place of a label in the emitted list.
PlaceOf(l) ==
    CASE l = "Claude Models" -> 1
      [] l = "Gemini Flash" -> 2
      [] l = "Gemini 3 Pro" -> 3
      [] l = "Gemini 3 Pro Image" -> 4

\* C17: the emitted list has one entry for each non-empty bucket, with the
\* values of the bucket, and none for an empty one; the entries come in the
\* order Claude Models, Gemini Flash, Gemini 3 Pro, Gemini 3 Pro Image, so
\* there are at most four and their labels differ.
C17_EmittedList ==
    pc = "agg_done" =>
        /\ Len(models) = Cardinality(NonEmpty)
        /\ Len(models) <= 4
        /\ {models[j].model : j \in DOMAIN models} = NonEmpty
        /\ \A j, k \in DOMAIN models :
              j < k => PlaceOf(models[j].model) < PlaceOf(models[k].model)
        /\ \A j \in DOMAIN models :
              /\ models[j].remaining_percent = bucket[models[j].model].pct
              /\ models[j].reset_time = bucket[models[j].model].reset

\* Three buckets were emitted, Claude Models staying empty.
C17_Witness ==
    /\ pc = "agg_done"
    /\ ~bucket["Claude Models"].some
    /\ Len(models) = 3
    /\ models[1].model = "Gemini Flash"
    /\ models[2].model = "Gemini 3 Pro"
    /\ models[3].model = "Gemini 3 Pro Image"

-----------------------------------------------------------------------------
\* The Gemini account loop.

\* The calls logged for the account with this email.
CallsOf(email, call) ==
    {j \in DOMAIN http : http[j].account = email /\ http[j].call = call}
RefreshFailed(email) ==
    \E j \in CallsOf(email, "refresh") : http[j].response # "ok"
LoopOver == pc \in {"gem_return", "gem_done"}
StoredEmails == {store.accounts[k].email : k \in DOMAIN store.accounts}

\* C18: within one Gemini fetch, an account whose token refresh failed gets no
\* loadCodeAssist call and no fetchAvailableModels call and no entry in the
\* fetched data, and once the loop is over every account stored after it has
\* had its own token refresh attempted.
C18_RefreshFailureIsPerAccount ==
    \A k \in DOMAIN store.accounts :
        RefreshFailed(store.accounts[k].email) =>
            /\ CallsOf(store.accounts[k].email, "loadCodeAssist") = {}
            /\ CallsOf(store.accounts[k].email, "fetchAvailableModels") = {}
            /\ \A d \in DOMAIN account_data :
                  account_data[d].email # store.accounts[k].email
            /\ LoopOver =>
                  \A l \in DOMAIN store.accounts :
                      l > k => CallsOf(store.accounts[l].email, "refresh") # {}

C18_Witness ==
    /\ pc = "gem_done"
    /\ Len(store.accounts) = 2
    /\ RefreshFailed(store.accounts[1].email)
    /\ CallsOf(store.accounts[2].email, "fetchAvailableModels") # {}
    /\ Len(account_data) = 1
    /\ account_data[1].email = store.accounts[2].email

\* The stored positions of the accounts whose last call, fetchAvailableModels,
\* was answered.
SucceededAccounts ==
    {k \in DOMAIN store.accounts :
        \E j \in CallsOf(store.accounts[k].email, "fetchAvailableModels") :
            http[j].response = "ok"}

\* A set of positions as the sequence of its members in ascending order.
RECURSIVE Ascending(_)
Ascending(S) ==
    IF S = {} THEN <<>>
    ELSE LET m == CHOOSE x \in S : \A y \in S : x <= y
         IN <<m>> \o Ascending(S \ {m})

\* C19: a Gemini fetch that read a non-empty account list returns the one
\* error "Failed to fetch quota for any Gemini account" exactly when no
\* account succeeded; otherwise it returns the accounts that succeeded, each
\* once, in stored order, the active flag being that of the stored position.
C19_AggregateFailureOrSucceeded ==
    (pc = "gem_done" /\ store.ok /\ store.some /\ store.accounts # <<>>) =>
        /\ ~fetch_ret.ok <=> SucceededAccounts = {}
        /\ ~fetch_ret.ok =>
              fetch_ret.err = "ApiError" /\ fetch_ret.accounts = <<>>
        /\ fetch_ret.ok =>
              /\ Len(fetch_ret.accounts) = Cardinality(SucceededAccounts)
              /\ \A d \in DOMAIN fetch_ret.accounts :
                    LET k == Ascending(SucceededAccounts)[d]
                    IN /\ fetch_ret.accounts[d].email = store.accounts[k].email
                       /\ fetch_ret.accounts[d].is_active
                              <=> (k - 1 = store.active_index)

C19_Witness ==
    /\ pc = "gem_done"
    /\ Len(store.accounts) = 2
    /\ SucceededAccounts = {2}
    /\ Len(acct_warnings) = 1
    /\ fetch_ret.ok
    /\ Len(fetch_ret.accounts) = 1
    /\ fetch_ret.accounts[1].email = store.accounts[2].email

-----------------------------------------------------------------------------
\* The HTTP calls of a fetch.

\* C22: every HTTP call made during a fetch carries the timeout the caller
\* passed to fetch, the token refresh of Gemini included.
C22_CallerTimeoutOnEveryCall ==
    \A j \in DOMAIN http : http[j].timeout = timeout

\* The account at stored position k is through fetch_account_quota.
AccountOver(k) == idx > k \/ LoopOver

\* A cloudaicompanionProject that names a project: a string "projects/<id>",
\* whatever follows the id.
ParsableRef(ref) ==
    /\ ref.kind = "string"
    /\ Len(ref.parts) >= 2
    /\ ref.parts[1] = "projects"

\* The loadCodeAssist call j gave no project: it failed, or its answer names
\* none.
NoProjectFrom(j) ==
    http[j].response # "ok" \/ ~ParsableRef(http[j].body.ref)

\* C23: a loadCodeAssist call is made only for an account that has neither
\* projectId nor managedProjectId, after a token refresh of that account that
\* succeeded and before its fetchAvailableModels call, which is made whatever
\* the loadCodeAssist call ended with, and without a project when that call
\* failed or its answer names no project.
C23_LoadAssistOnlyWithoutProject ==
    \A k \in DOMAIN store.accounts :
        LET account == store.accounts[k]
            catalog == CallsOf(account.email, "fetchAvailableModels")
        IN \A j \in CallsOf(account.email, "loadCodeAssist") :
              /\ ~account.project_id.some
              /\ ~account.managed_project_id.some
              /\ \E r \in CallsOf(account.email, "refresh") :
                    r < j /\ http[r].response = "ok"
              /\ \A c \in catalog : c > j
              /\ AccountOver(k) => catalog # {}
              /\ NoProjectFrom(j) =>
                    \A c \in catalog : http[c].project = NoProject

C23_Witness ==
    /\ pc = "gem_done"
    /\ Len(store.accounts) >= 1
    /\ ~store.accounts[1].project_id.some
    /\ ~store.accounts[1].managed_project_id.some
    /\ \E j \in CallsOf(store.accounts[1].email, "loadCodeAssist") :
          /\ http[j].response = "status"
          /\ \E c \in CallsOf(store.accounts[1].email, "fetchAvailableModels") :
                c > j /\ http[c].project = NoProject /\ http[c].response = "ok"

\* The fetch of claude, codex or copilot has returned.
ApiDone == pc = "api_done"

\* The usage request of the fetch, if it was made.
UsageCalls == {j \in DOMAIN http : http[j].call = "usage"}

\* C25: a fetch whose usage request was answered 2xx with a body that does not
\* decode fails, and with an error of another kind than NetworkError, the kind
\* of a transport failure.
C25_MalformedIsOwnKind ==
    ApiDone =>
        \A j \in UsageCalls :
            http[j].response = "body" =>
                ~fetch_ret.ok /\ fetch_ret.err # "NetworkError"

\* auth.json is there, is read and holds the token of the provider.
TokenPresent ==
    /\ home
    /\ auth_file.state = "valid"
    /\ KeyOf(fetcher) \in auth_file.keys

\* The endpoints called, in order.
CallNames == [j \in DOMAIN http |-> http[j].call]

\* C27 as claimed: each of claude, codex and copilot issues exactly one
\* network call per fetch (of a fetch that finds its token).
C27_OneCallPerFetch == (ApiDone /\ TokenPresent) => Len(http) = 1

\* C27: a fetch of claude or codex that finds its token issues exactly one
\* network call, the usage request.  A fetch of copilot that finds its token
\* issues the usage request and, when that was answered 2xx with a body that
\* decodes, the user request, and after a user answer with a login the
\* billing request: one to three calls.  A fetch that finds no token issues
\* no call.
C27_CallsPerFetch ==
    ApiDone =>
        IF ~TokenPresent THEN http = <<>>
        ELSE IF fetcher # "copilot" THEN CallNames = <<"usage">>
        ELSE IF http[1].response # "ok" THEN CallNames = <<"usage">>
        ELSE IF http[2].response # "ok" \/ ~http[2].body.login
        THEN CallNames = <<"usage", "user">>
        ELSE CallNames = <<"usage", "user", "billing">>

C27_Witness ==
    /\ ApiDone
    /\ fetcher = "copilot"
    /\ CallNames = <<"usage", "user", "billing">>
    /\ fetch_ret.ok

-----------------------------------------------------------------------------
\* A sequential execution with its fetches.

\* The stored positions of the accounts whose fetch_account_quota failed: at
\* the token refresh or at fetchAvailableModels.
FailedAccounts ==
    {k \in DOMAIN store.accounts :
        \/ RefreshFailed(store.accounts[k].email)
        \/ \E j \in CallsOf(store.accounts[k].email, "fetchAvailableModels") :
              http[j].response # "ok"}

\* The entries of the Result Set that are of gemini.
GeminiEntries ==
    {k \in DOMAIN results : provider_name(results[k]) = "gemini"}

\* The execution is over and it fetched gemini.
GeminiRan ==
    Done /\ \E k \in DOMAIN providers : providers[k] = "gemini" /\ calls[k] > 0

\* C21 as claimed: a run in which some Gemini account failed has a Failed
\* entry for it in the Result Set.
C21_AccountFailureIsEntry ==
    (GeminiRan /\ FailedAccounts # {}) =>
        \E k \in GeminiEntries : IsFailed(results[k])

\* C21: an account of Gemini that failed is reported by the provider, in a
\* warning that names the account, and has no entry of its own in the Result
\* Set: the one entry of gemini is a Failed entry when no account succeeded
\* and the snapshot of gemini when some did; the other accounts are fetched
\* all the same.
C21_AccountFailureIsWarning ==
    GeminiRan =>
        /\ \A k \in FailedAccounts :
              Cardinality({w \in DOMAIN acct_warnings :
                  acct_warnings[w].email = store.accounts[k].email}) = 1
        /\ Len(acct_warnings) = Cardinality(FailedAccounts)
        /\ FailedAccounts \cup SucceededAccounts = DOMAIN store.accounts
        /\ Cardinality(GeminiEntries) = 1
        /\ \A k \in GeminiEntries :
              IsFailed(results[k]) <=> SucceededAccounts = {}

C21_Witness ==
    /\ GeminiRan
    /\ Len(store.accounts) = 2
    /\ FailedAccounts = {1}
    /\ SucceededAccounts = {2}
    /\ results = <<Snapshot("gemini")>>
    /\ Len(acct_warnings) = 1
    /\ exit_code = 0

\* The positions whose fetch returned ProviderNotConfigured.
NotConfiguredFetches ==
    {k \in DOMAIN backend : backend[k].err = "ProviderNotConfigured"}

\* C26: a fetch that ends with ProviderNotConfigured gives no failure warning
\* and does not make the run one with errors: has_errors is set only when a
\* fetch ended with another error.
C26_NotConfiguredIsNoFailure ==
    Done =>
        /\ \A k \in NotConfiguredFetches :
              \A w \in DOMAIN warnings : warnings[w].provider # providers[k]
        /\ has_errors => \E k \in DOMAIN backend :
              ~backend[k].ok /\ k \notin NotConfiguredFetches

\* The requests of a log of HTTP calls, in order.
Requests(log) == [j \in DOMAIN log |-> Request(log[j])]

\* C24: an execution and the execution of the same command with --verbose the
\* other way, against the same credential files and services, issue the same
\* requests in the same order and end with the same Result Set and the same
\* exit code; only the verbose one writes verbose lines.
C24_VerboseChangesNothing ==
    (Done /\ phase = 2) =>
        /\ Requests(http) = Requests(prev.http)
        /\ results = prev.results
        /\ exit_code = prev.exit_code
        /\ ~verbose => vlog = <<>>

C24_Witness ==
    /\ Done
    /\ phase = 2
    /\ verbose
    /\ Len(vlog) > Len(http)
    /\ Len(http) >= 3
    /\ \E j \in DOMAIN http : http[j].response = "status"
    /\ results # <<>>
    /\ exit_code = 0

-----------------------------------------------------------------------------
\* The exit code, and the two evaluations of is_configured.

\* The execution ended at one of the two configuration checks, before the
\* fetch phase.
StoppedAtChecks ==
    Done /\ message \in {MsgNoProvidersSpecified, MsgNoProvidersConfigured}

\* A fetch was started.
SomeFetchRan == \E k \in DOMAIN calls : calls[k] > 0

\* C28 as stated: at exit the exit code is 0, 1 or 2; it is 2 exactly when
\* no fetch was started, 0 exactly when a fetch ran and the Result Set has no
\* Failed entry, and 1 otherwise; has_errors is true exactly when the Result
\* Set has a Failed entry.
C28_ExitCodeByFetches ==
    Done =>
        /\ exit_code \in {0, 1, 2}
        /\ exit_code = 2 <=> ~SomeFetchRan
        /\ exit_code = 0 <=> (SomeFetchRan /\ FailedIn(results) = <<>>)
        /\ has_errors <=> FailedIn(results) # <<>>

\* C28 (amended): at exit the exit code is 0, 1 or 2; it is 2 exactly when the
\* execution stopped at one of the two configuration checks, where no fetch
\* has been started; it is 0 exactly when a fetch ran and the Result Set has
\* no Failed entry; it is 1 otherwise, which includes the execution that
\* passed the checks and then selected no provider to fetch; has_errors is
\* true exactly when the Result Set has a Failed entry.
C28_ExitCode ==
    Done =>
        /\ exit_code \in {0, 1, 2}
        /\ exit_code = 2 <=> StoppedAtChecks
        /\ StoppedAtChecks => ~SomeFetchRan
        /\ exit_code = 0 <=> (SomeFetchRan /\ FailedIn(results) = <<>>)
        /\ has_errors <=> FailedIn(results) # <<>>

C28_Witness ==
    /\ Done
    /\ ~StoppedAtChecks
    /\ ~SomeFetchRan
    /\ exit_code = 1
    /\ ~has_errors

\* The answer of is_configured for position k when the providers to fetch
\* were selected: the provider was fetched.
Selected(k) == calls[k] > 0

\* is_configured answered at the selection what it answered at the count.
SameAnswers == \A k \in DOMAIN providers : Selected(k) = counted[k]

\* The execution went through the fetch phase and took the branch of
\* `results.is_empty()' (main.rs 175-178).
EmptyResultsBranch ==
    Done /\ ~StoppedAtChecks /\ results = <<>>

\* C29: is_configured is asked once per provider at the count and once more
\* at the selection.  An execution that passed the configured-count check
\* with the same answers at both has a non-empty Result Set; the branch of the
\* empty Result Set is taken only when an answer changed in between, and then
\* the exit code is 1 and no provider was fetched.
C29_EmptyResultsOnlyAfterChange ==
    /\ pc # "start" => DOMAIN counted = DOMAIN providers
    /\ (Done /\ ~StoppedAtChecks /\ SameAnswers) => results # <<>>
    /\ EmptyResultsBranch =>
          /\ ~SameAnswers
          /\ exit_code = 1
          /\ ~SomeFetchRan

C29_Witness ==
    /\ EmptyResultsBranch
    /\ \E k \in DOMAIN providers : counted[k] /\ ~Selected(k)
    /\ message = MsgAllFailed
    /\ exit_code = 1

-----------------------------------------------------------------------------
\* The status of Codex data.

\* Both the status of the provider and the rows of the table are there.
StatusShown == data_status # NoStatus /\ rows # <<>>

\* A row of the table has the status Warning.
SomeRowWarns ==
    \E k \in DOMAIN rows : rows[k].status = format_status("Warning")

\* C30: for Codex data and every pair of used percentages,
\* ProviderData::status is Warning exactly when one of the two rows of the
\* table has the status Warning.
C30_StatusAgreesWithRows ==
    StatusShown => (data_status = "Warning" <=> SomeRowWarns)

====
